---- MODULE Spec2Model ----
(***************************************************************************)
(* A model of the WAL forensic core of sqlite-gui-analyzer:                *)
(*   src/src/wal_parser.py  (WALParser: header/frame reader, record        *)
(*                           recovery, summary)                            *)
(*   src/src/database.py    (DB: page/table mapper)                        *)
(*                                                                         *)
(* Abstraction of the bytes.  A WAL file is its 32-byte header (magic,     *)
(* page_size, salt1, salt2), the sequence of its frame slots and its       *)
(* length in bytes; slot k (0-based) occupies the bytes                    *)
(* 32 + k*(24+page_size) .. 32 + (k+1)*(24+page_size) - 1, and only the    *)
(* slots that lie wholly below the length can be read.  A page is the      *)
(* decoded view of its bytes: its first byte, the offset at which its      *)
(* b-tree header sits (0, or 100 for a page laid out as page 1), the       *)
(* b-tree type byte, the right-child pointer and the cells in cell-pointer *)
(* order.  Checksums, format version and checkpoint sequence are carried   *)
(* by the code but never read by the operations modelled here.             *)
(***************************************************************************)
EXTENDS Integers, Sequences, FiniteSets, TLC

VARIABLES
    _mm,          \* WALParser._mm: the mapped WAL file, or None
    _f,           \* WALParser._f: TRUE while a file handle is held
    header,       \* WALParser.header
    frames,       \* WALParser.frames
    page_size,    \* WALParser.page_size
    _valid,       \* WALParser._valid
    _file_size,   \* WALParser._file_size
    page_map,     \* WALParser.page_map   page_num -> table_name
    col_map,      \* WALParser.col_map    table_name -> column names
    pk_col_idx,   \* WALParser.pk_col_idx table_name -> index of the rowid alias
    env,          \* the files and the live schema DB._build_wal_page_map reads
    db,           \* the DB object: connections, backup path, position in open
    walk,         \* position of DB._traverse_btree_pages (its recursion, unrolled)
    gen,          \* a running search / recover_all_records generator
    app,          \* the App window's search state and its worker threads
    out           \* what the last operation returned

parserVars == <<_mm, _f, header, frames, page_size, _valid, _file_size>>
mapVars == <<page_map, col_map, pk_col_idx>>
vars == <<_mm, _f, header, frames, page_size, _valid, _file_size,
          page_map, col_map, pk_col_idx, env, db, walk, gen, app, out>>

----------------------------------------------------------------------------
(* Python values *)

None == [none |-> TRUE]

\* a dict as a TLA+ function: the empty dict, d[k] = v, d.get(k, dflt)
EmptyDict == <<>>
DictPut(d, k, v) == [x \in (DOMAIN d) \cup {k} |-> IF x = k THEN v ELSE d[x]]
DictGet(d, k, dflt) == IF k \in DOMAIN d THEN d[k] ELSE dflt

----------------------------------------------------------------------------
(* constants.py *)

WAL_MAGIC_BE == 931071618
WAL_MAGIC_LE == 931071619
WAL_HEADER_SIZE == 32
WAL_FRAME_HEADER_SIZE == 24

TABLE_LEAF == 13
TABLE_INTERIOR == 5
INDEX_INTERIOR == 2
INDEX_LEAF == 10

----------------------------------------------------------------------------
(* WALParser: header and frames *)

\* WALParser.__init__ / the fields close() resets
NotOpen ==
    [mm |-> None, f |-> FALSE, header |-> None, frames |-> <<>>,
     page_size |-> 0, valid |-> FALSE, file_size |-> 0]

\* _identify_page_type(mm[page_data_offset:page_data_offset + 1])
_identify_page_type(page) == page.b0

ParseHeaderMutAnyMagic(mm) ==
    IF mm.size < WAL_HEADER_SIZE THEN None
    ELSE [magic |-> mm.magic, page_size |-> mm.page_size,
          salt1 |-> mm.salt1, salt2 |-> mm.salt2]

\* _parse_header: None unless the magic is one of the two WAL magics
_parse_header(mm) ==
    IF mm.size < WAL_HEADER_SIZE THEN None
    ELSE IF mm.magic \notin {WAL_MAGIC_BE, WAL_MAGIC_LE} THEN None
    ELSE [magic |-> mm.magic, page_size |-> mm.page_size,
          salt1 |-> mm.salt1, salt2 |-> mm.salt2]

\* the classification inside the loop of _parse_frames
ClassifyMutOr(f_salt1, f_salt2, commit_size, hdr_salt1, hdr_salt2) ==
    LET salt_match == (f_salt1 = hdr_salt1 \/ f_salt2 = hdr_salt2)
    IN  IF salt_match /\ commit_size > 0 THEN "committed"
        ELSE IF salt_match THEN "uncommitted"
        ELSE "old"

Classify(f_salt1, f_salt2, commit_size, hdr_salt1, hdr_salt2) ==
    LET salt_match == (f_salt1 = hdr_salt1 /\ f_salt2 = hdr_salt2)
    IN  IF salt_match /\ commit_size > 0 THEN "committed"
        ELSE IF salt_match THEN "uncommitted"
        ELSE "old"

\* the frame slot whose 24-byte header starts at byte `offset`
SlotAt(mm, offset) ==
    mm.slots[((offset - WAL_HEADER_SIZE)
                 \div (WAL_FRAME_HEADER_SIZE + mm.page_size)) + 1]

\* the loop condition of _parse_frames
FrameFitsMutHeaderOnly(offset, frame_total_size, length) ==
    offset + WAL_FRAME_HEADER_SIZE <= length

FrameFits(offset, frame_total_size, length) ==
    offset + frame_total_size <= length

RECURSIVE ParseFramesLoop(_, _, _, _, _)
ParseFramesLoop(mm, hdr, offset, idx, acc) ==
    LET frame_total_size == WAL_FRAME_HEADER_SIZE + hdr.page_size
    IN  IF FrameFits(offset, frame_total_size, mm.size)
        THEN LET raw == SlotAt(mm, offset)
                 fr  == [index |-> idx, offset |-> offset,
                         page_num |-> raw.page_num,
                         commit_size |-> raw.commit_size,
                         salt1 |-> raw.salt1, salt2 |-> raw.salt2,
                         category |-> Classify(raw.salt1, raw.salt2,
                                               raw.commit_size,
                                               hdr.salt1, hdr.salt2),
                         page_type_byte |-> _identify_page_type(raw.page)]
             IN  ParseFramesLoop(mm, hdr, offset + frame_total_size,
                                 idx + 1, Append(acc, fr))
        ELSE acc

_parse_frames(mm, hdr) == ParseFramesLoop(mm, hdr, WAL_HEADER_SIZE, 0, <<>>)

\* close(): every field back to its initial value; the three maps are kept
CloseMutKeepFrames(p) ==
    [p EXCEPT !.mm = None, !.f = FALSE, !.valid = FALSE]

close(p) ==
    [p EXCEPT !.mm = None, !.f = FALSE, !.header = None, !.frames = <<>>,
              !.page_size = 0, !.valid = FALSE, !.file_size = 0]

\* the statements of open_wal_file's try block that can raise
OpenFaults == {"open", "mmap", "parse"}

\* open_wal_file(wal_path) on a parser in state p.  `file` is what wal_path
\* names (None: no such file); `fault` names the statement of the try
\* block that raises ("none": nothing raises).  except Exception: close()
open_wal_file(p, file, fault) ==
    LET c == close(p)
    IN  IF file = None THEN c
        ELSE IF file.size < WAL_HEADER_SIZE THEN c
        ELSE IF fault = "open" THEN close(c)
        ELSE
        LET opened == [c EXCEPT !.f = TRUE, !.file_size = file.size]
        IN  IF fault = "mmap" THEN close(opened)
            ELSE
            LET mapped == [opened EXCEPT !.mm = file]
                hdr == _parse_header(file)
                parsed == IF hdr = None THEN mapped
                          ELSE [mapped EXCEPT !.header = hdr,
                                              !.page_size = hdr.page_size,
                                              !.valid = TRUE]
            IN  IF ~parsed.valid THEN close(parsed)
                ELSE LET framed == [parsed EXCEPT
                                       !.frames = _parse_frames(file, hdr)]
                     IN  IF fault = "parse" THEN close(framed) ELSE framed

\* WALParser().open_wal_file(wal_path): a new parser opened on `file`
OpenResult(file) == open_wal_file(NotOpen, file, "none")

SetParserInit ==
    /\ _mm = NotOpen.mm
    /\ _f = NotOpen.f
    /\ header = NotOpen.header
    /\ frames = NotOpen.frames
    /\ page_size = NotOpen.page_size
    /\ _valid = NotOpen.valid
    /\ _file_size = NotOpen.file_size

SetParser(p) ==
    /\ _mm' = p.mm
    /\ _f' = p.f
    /\ header' = p.header
    /\ frames' = p.frames
    /\ page_size' = p.page_size
    /\ _valid' = p.valid
    /\ _file_size' = p.file_size

\* the parser object as one record
Parser ==
    [mm |-> _mm, f |-> _f, header |-> header, frames |-> frames,
     page_size |-> page_size, valid |-> _valid, file_size |-> _file_size]

\* WALParser.open_wal_file(wal_path), with an exception raised at `fault`
OpenWalFileFault(file, fault) ==
    /\ SetParser(open_wal_file(Parser, file, fault))
    /\ out' = [op |-> "open", arg |-> file, fault |-> fault,
               before |-> Parser]
    /\ UNCHANGED <<app, mapVars, env, db, walk, gen>>

\* WALParser.open_wal_file(wal_path)
OpenWalFile(file) == OpenWalFileFault(file, "none")

\* WALParser.close()
Close ==
    /\ SetParser(close(Parser))
    /\ out' = [op |-> "close"]
    /\ UNCHANGED <<app, mapVars, env, db, walk, gen>>

\* WALParser.get_page_data(frame_index): the page, or None for b""
get_page_data(p, frame_index) ==
    IF ~p.valid \/ frame_index < 0 \/ frame_index >= Len(p.frames) THEN None
    ELSE LET frame == p.frames[frame_index + 1]
             start == frame.offset + WAL_FRAME_HEADER_SIZE
             end   == start + p.page_size
         IN  IF end > p.mm.size THEN None
             ELSE SlotAt(p.mm, frame.offset).page

----------------------------------------------------------------------------
(* WALParser.summary *)

RECURSIVE SummaryLoop(_, _, _, _)
SummaryLoop(fs, i, cats, unique_pages) ==
    IF i > Len(fs) THEN [cats |-> cats, unique_pages |-> unique_pages]
    ELSE SummaryLoop(fs, i + 1,
                     DictPut(cats, fs[i].category,
                             DictGet(cats, fs[i].category, 0) + 1),
                     unique_pages \cup {fs[i].page_num})

SummaryCatsMutSwap(r) ==
    [committed |-> r.cats["committed"], uncommitted |-> r.cats["old"],
     old |-> r.cats["uncommitted"]]

SummaryCats(r) ==
    [committed |-> r.cats["committed"], uncommitted |-> r.cats["uncommitted"],
     old |-> r.cats["old"]]

summary(p) ==
    IF ~p.valid THEN [op |-> "summary", empty |-> TRUE]
    ELSE LET r == SummaryLoop(p.frames, 1,
                     [c \in {"committed", "uncommitted", "old"} |-> 0], {})
             c == SummaryCats(r)
         IN  [op |-> "summary", empty |-> FALSE,
              total_frames |-> Len(p.frames),
              committed |-> c.committed,
              uncommitted |-> c.uncommitted,
              old |-> c.old,
              unique_pages |-> Cardinality(r.unique_pages),
              wal_size |-> p.file_size,
              page_size |-> p.page_size]

Summary ==
    /\ out' = summary(Parser)
    /\ UNCHANGED <<app, parserVars, mapVars, env, db, walk, gen>>

----------------------------------------------------------------------------
(* Pages, as the decoded view of their bytes *)

\* the first byte of the database file header, "SQLite format 3\000"
DB_HEADER_BYTE0 == 83

LeafPage(cells) ==
    [b0 |-> TABLE_LEAF, off |-> 0, ptype |-> TABLE_LEAF, rc |-> 0,
     cells |-> cells]
InteriorPage(rc, kids) ==
    [b0 |-> TABLE_INTERIOR, off |-> 0, ptype |-> TABLE_INTERIOR, rc |-> rc,
     cells |-> kids]
FreePage ==
    [b0 |-> 0, off |-> 0, ptype |-> 0, rc |-> 0, cells |-> <<>>]
\* a page laid out as page 1: database header, then the b-tree header at 100
Page1Leaf(cells) ==
    [b0 |-> DB_HEADER_BYTE0, off |-> 100, ptype |-> TABLE_LEAF, rc |-> 0,
     cells |-> cells]
Page1Interior(rc, kids) ==
    [b0 |-> DB_HEADER_BYTE0, off |-> 100, ptype |-> TABLE_INTERIOR,
     rc |-> rc, cells |-> kids]

\* data[hdr_offset]: the b-tree type byte read at hdr_offset.  Read at the
\* other offset, a page shows its first byte (offset 0) or unused space (100).
PageTypeAt(page, hdr_offset) ==
    IF page.off = hdr_offset THEN page.ptype
    ELSE IF hdr_offset = 0 THEN page.b0 ELSE 0

\* the cell-pointer array decoded from the header at hdr_offset
CellsAt(page, hdr_offset) ==
    IF page.off = hdr_offset THEN page.cells ELSE <<>>

\* int.from_bytes(data[hdr_offset + 8:hdr_offset + 12], "big")
RightChildAt(page, hdr_offset) ==
    IF page.off = hdr_offset THEN page.rc ELSE 0

\* an interior cell whose offset lies outside the page (cell_off + 4 > len)
BadPtr == -1

\* right child first, then each cell's left child, as the traversals read them
ChildPointers(page, hdr_offset) ==
    <<RightChildAt(page, hdr_offset)>> \o CellsAt(page, hdr_offset)

----------------------------------------------------------------------------
(* Cell values.  A decoded value is NULL, an integer, a text or a blob;    *)
(* a Python str is a TLA+ string and a Python int a TLA+ integer.          *)

VNull == [t |-> "null"]
VInt(i) == [t |-> "int", i |-> i]
VText(s) == [t |-> "text", s |-> s]
VBlob(b) == [t |-> "blob", b |-> b]

\* a leaf cell that decodes, and one that does not (skipped by the parser)
Cell(rowid, values) == [ok |-> TRUE, rowid |-> rowid, values |-> values]
BadCell == [ok |-> FALSE]

\* Python truthiness of a decoded value: None, 0, "" and b"" are falsy
Truthy(v) ==
    CASE v.t = "null" -> FALSE
      [] v.t = "int"  -> v.i # 0
      [] v.t = "text" -> v.s # ""
      [] OTHER        -> v.b # ""

RECURSIVE GoodCells(_, _)
GoodCells(cells, i) ==
    IF i > Len(cells) THEN <<>>
    ELSE IF cells[i].ok
         THEN <<[rowid |-> cells[i].rowid, values |-> cells[i].values]>>
                  \o GoodCells(cells, i + 1)
         ELSE GoodCells(cells, i + 1)

\* WALParser.parse_leaf_cells(page_data)
parse_leaf_cells(page_data) ==
    IF page_data = None THEN <<>>
    ELSE IF page_data.b0 # TABLE_LEAF THEN <<>>
    ELSE GoodCells(CellsAt(page_data, 0), 1)

\* WALParser.parse_page1_cells(page_data)
parse_page1_cells(page_data) ==
    IF page_data = None THEN <<>>
    ELSE IF PageTypeAt(page_data, 100) # TABLE_LEAF THEN <<>>
    ELSE GoodCells(CellsAt(page_data, 100), 1)

----------------------------------------------------------------------------
(* CREATE TABLE texts.  A text is an opaque string; the lexical part of    *)
(* the two SQL scanners (the regex that finds the parenthesised body and   *)
(* the split of the body at depth-0 commas into whitespace-separated       *)
(* words) is tabulated for the texts the model uses, and everything the    *)
(* scanners do with the parts is modelled from their code.                 *)

SQL_T2 == "CREATE TABLE t2(id INTEGER PRIMARY KEY, v TEXT)"
SQL_T3 == "CREATE TABLE t3(k TEXT, n integer primary key, UNIQUE (k))"
SQL_T4 == "CREATE TABLE t4(a, b)"
SQL_I2 == "CREATE INDEX i2 ON t2(v)"
SQL_T5 == "  create table t5(a)"
SQL_T1B == "CREATE TABLE t1(a, n INTEGER PRIMARY KEY)"
SQL_T2B == "CREATE TABLE t2(a, b)"

\* the parts of the body matched by
\* CREATE\s+TABLE\s+(?:IF\s+NOT\s+EXISTS\s+)?\S+\s*\((.+)\); <<>> without a match
SqlParts(sql) ==
    CASE sql = SQL_T2 -> <<<<"id", "INTEGER", "PRIMARY", "KEY">>, <<"v", "TEXT">>>>
      [] sql = SQL_T3 -> <<<<"k", "TEXT">>,
                           <<"n", "integer", "primary", "key">>,
                           <<"UNIQUE", "(k)">>>>
      [] sql = SQL_T4 -> <<<<"a">>, <<"b">>>>
      [] sql = SQL_T5 -> <<<<"a">>>>
      [] sql = SQL_T1B -> <<<<"a">>, <<"n", "INTEGER", "PRIMARY", "KEY">>>>
      [] sql = SQL_T2B -> <<<<"a">>, <<"b">>>>
      [] OTHER -> <<>>

\* str.upper() of a word
Upper(w) ==
    CASE w = "integer" -> "INTEGER"
      [] w = "primary" -> "PRIMARY"
      [] w = "key" -> "KEY"
      [] w = "(k)" -> "(K)"
      [] w = "text" -> "TEXT"
      [] OTHER -> w

\* text.strip().upper().startswith("CREATE")
StartsWithCreate(text) ==
    text \in {SQL_T2, SQL_T3, SQL_T4, SQL_I2, SQL_T5, SQL_T1B, SQL_T2B}

TableConstraintWords == {"PRIMARY", "FOREIGN", "UNIQUE", "CHECK", "CONSTRAINT"}

\* DB._parse_create_columns(sql)
RECURSIVE ParseColumnsLoop(_, _)
ParseColumnsLoop(parts, i) ==
    IF i > Len(parts) THEN <<>>
    ELSE LET first_word == parts[i][1]
         IN  IF Upper(first_word) \in TableConstraintWords
             THEN ParseColumnsLoop(parts, i + 1)
             ELSE <<first_word>> \o ParseColumnsLoop(parts, i + 1)

_parse_create_columns(sql) == ParseColumnsLoop(SqlParts(sql), 1)

\* DB._detect_pk_from_sql(sql); the three tests '"INTEGER" in upper' are
\* substring tests, which on the texts above find whole words only
RECURSIVE DetectPkLoop(_, _, _)
DetectPkLoop(parts, i, col_idx) ==
    IF i > Len(parts) THEN -1
    ELSE LET words == {Upper(parts[i][k]) : k \in 1..Len(parts[i])}
         IN  IF Upper(parts[i][1]) \in TableConstraintWords
             THEN DetectPkLoop(parts, i + 1, col_idx)
             ELSE IF {"INTEGER", "PRIMARY", "KEY"} \subseteq words
             THEN col_idx
             ELSE DetectPkLoop(parts, i + 1, col_idx + 1)

_detect_pk_from_sql(sql) == DetectPkLoop(SqlParts(sql), 1, 0)

----------------------------------------------------------------------------
(* DB: the page/table mapper *)

\* an insertion-ordered dict (root_pages, new_root_pages) as a sequence of
\* <<key, value>> pairs; assigning to a present key keeps its position
RECURSIVE OrdPut(_, _, _)
OrdPut(d, k, v) ==
    IF d = <<>> THEN <<<<k, v>>>>
    ELSE IF d[1][1] = k THEN <<<<k, v>>>> \o Tail(d)
    ELSE <<d[1]>> \o OrdPut(Tail(d), k, v)

OrdHas(d, k) == \E i \in 1..Len(d) : d[i][1] = k

\* recursion limit of the two traversals: "if depth > 20"
MAX_DEPTH == 20

\* _read_page(f, page_num): a page of the main file, None outside it
_read_page(dbfile, page_num) ==
    IF page_num < 1 \/ page_num > Len(dbfile) THEN None
    ELSE dbfile[page_num]

WalkGuardMutNoVisited(depth, page_num, visited) == depth > MAX_DEPTH

\* "if depth > 20 or page_num in visited: return"
WalkGuard(depth, page_num, visited) ==
    depth > MAX_DEPTH \/ page_num \in visited

\* _walk_interior(f, page_num, table_name, depth) of _traverse_btree_pages,
\* on st = [visited, pm]
RECURSIVE _walk_interior(_, _, _, _, _)
RECURSIVE WalkChildren(_, _, _, _, _, _)
_walk_interior(dbfile, st, page_num, table_name, depth) ==
    IF WalkGuard(depth, page_num, st.visited) THEN st
    ELSE LET st1 == [visited |-> st.visited \cup {page_num},
                     pm |-> DictPut(st.pm, page_num, table_name)]
             data == _read_page(dbfile, page_num)
             hdr_offset == IF page_num = 1 THEN 100 ELSE 0
         IN  IF data = None THEN st1
             ELSE IF PageTypeAt(data, hdr_offset)
                        \notin {INDEX_INTERIOR, TABLE_INTERIOR} THEN st1
             ELSE WalkChildren(dbfile, st1, ChildPointers(data, hdr_offset),
                               1, table_name, depth)

WalkChildren(dbfile, st, kids, i, table_name, depth) ==
    IF i > Len(kids) THEN st
    ELSE IF kids[i] > 0
         THEN WalkChildren(dbfile,
                  _walk_interior(dbfile,
                      [st EXCEPT !.pm = DictPut(@, kids[i], table_name)],
                      kids[i], table_name, depth + 1),
                  kids, i + 1, table_name, depth)
         ELSE WalkChildren(dbfile, st, kids, i + 1, table_name, depth)

\* _traverse_btree_pages(db_path, page_size, root_pages, page_map)
RECURSIVE TraverseRoots(_, _, _, _)
TraverseRoots(dbfile, root_pages, i, st) ==
    IF i > Len(root_pages) THEN st
    ELSE TraverseRoots(dbfile, root_pages, i + 1,
             _walk_interior(dbfile, st, root_pages[i][1], root_pages[i][2], 0))

_traverse_btree_pages(dbfile, root_pages, pm) ==
    TraverseRoots(dbfile, root_pages, 1, [visited |-> {}, pm |-> pm]).pm

\* one row of SELECT type, name, tbl_name, rootpage FROM sqlite_master
\* WHERE rootpage > 0, with the table's PRAGMA table_info as row.cols
\* m = [page_map, col_map, pk_col_idx, root_pages]
RECURSIVE FirstIntegerPk(_, _)
FirstIntegerPk(cols, i) ==
    IF i > Len(cols) THEN -1
    ELSE IF cols[i].pk = 1 /\ Upper(cols[i].type) = "INTEGER" THEN i - 1
    ELSE FirstIntegerPk(cols, i + 1)

SeedOwnerMutOwnName(row) == row.name

SeedOwner(row) ==
    IF row.type = "table" THEN row.name
    ELSE IF row.tbl_name # "" THEN row.tbl_name ELSE row.name

SeedRow(m, row) ==
    IF row.type = "table"
    THEN LET cid == FirstIntegerPk(row.cols, 1)
         IN  [page_map |-> DictPut(m.page_map, row.rootpage, SeedOwner(row)),
              col_map |-> DictPut(m.col_map, row.name,
                              [k \in 1..Len(row.cols) |-> row.cols[k].name]),
              pk_col_idx |-> IF cid >= 0
                             THEN DictPut(m.pk_col_idx, row.name, cid)
                             ELSE m.pk_col_idx,
              root_pages |-> OrdPut(m.root_pages, row.rootpage, SeedOwner(row))]
    ELSE [m EXCEPT
              !.page_map = DictPut(@, row.rootpage, SeedOwner(row)),
              !.root_pages = OrdPut(@, row.rootpage, SeedOwner(row))]

RECURSIVE SeedRows(_, _, _)
SeedRows(m, rows, i) ==
    IF i > Len(rows) THEN m
    ELSE IF rows[i].rootpage > 0
         THEN SeedRows(SeedRow(m, rows[i]), rows, i + 1)
         ELSE SeedRows(m, rows, i + 1)

MASTER_COLS == <<"type", "name", "tbl_name", "rootpage", "sql">>

\* the page map the build starts from: the local page_map = {}
BuildStartMapMutReuse == page_map

BuildStartMap == EmptyDict

\* lines 164-213 of _build_wal_page_map: the maps seeded from the live schema
SeedStart ==
    [page_map |-> BuildStartMap, col_map |-> EmptyDict,
     pk_col_idx |-> EmptyDict, root_pages |-> <<>>]

SeedLive(e) ==
    LET m1 == SeedRows(SeedStart, e.schema, 1)
    IN  [m1 EXCEPT
            !.page_map = DictPut(@, 1, "sqlite_master"),
            !.col_map = DictPut(@, "sqlite_master", MASTER_COLS),
            !.root_pages = OrdPut(@, 1, "sqlite_master")]

\* lines 164-220 of _build_wal_page_map: live schema, then the main file
SeedAndTraverse(e, ps) ==
    LET m2 == SeedLive(e)
    IN  IF ps > 0
        THEN [m2 EXCEPT !.page_map =
                  _traverse_btree_pages(e.dbfile, m2.root_pages, m2.page_map)]
        ELSE m2

\* str(v) of any decoded value
PyStr(v) ==
    CASE v.t = "null" -> "None"
      [] v.t = "int"  -> ToString(v.i)
      [] v.t = "text" -> v.s
      [] OTHER        -> "b'" \o v.b \o "'"

\* str(v) if v else dflt
StrOr(v, dflt) == IF Truthy(v) THEN PyStr(v) ELSE dflt

\* the child page numbers (> 0) an interior page names
ChildSet(page, hdr_offset) ==
    LET kids == ChildPointers(page, hdr_offset)
    IN  {kids[k] : k \in {x \in 1..Len(kids) : kids[x] > 0}}

RECURSIVE PutAll(_, _, _)
PutAll(pm, keys, v) ==
    IF keys = {} THEN pm
    ELSE LET k == CHOOSE x \in keys : TRUE
         IN  PutAll(DictPut(pm, k, v), keys \ {k}, v)

\* "for cf in self._wal.frames" of the page-1 scan: the leaf cells of the
\* WAL frames that hold child pages of an interior sqlite_master root
RECURSIVE MasterChildCells(_, _, _)
MasterChildCells(p, child_pages, j) ==
    IF j > Len(p.frames) THEN <<>>
    ELSE LET cf == p.frames[j]
         IN  IF cf.page_num \in child_pages /\ cf.page_type_byte = TABLE_LEAF
             THEN parse_leaf_cells(get_page_data(p, cf.index))
                      \o MasterChildCells(p, child_pages, j + 1)
             ELSE MasterChildCells(p, child_pages, j + 1)

\* first loop of _scan_wal_for_new_tables: acc = [cells, pm]
RECURSIVE MasterLeafCells(_, _, _)
MasterLeafCells(p, i, acc) ==
    IF i > Len(p.frames) THEN acc
    ELSE LET frame == p.frames[i]
             page_data == get_page_data(p, frame.index)
         IN  IF frame.page_num # 1 THEN MasterLeafCells(p, i + 1, acc)
             ELSE IF page_data = None \/ p.page_size < 108
             THEN MasterLeafCells(p, i + 1, acc)
             ELSE IF PageTypeAt(page_data, 100) = TABLE_LEAF
             THEN MasterLeafCells(p, i + 1,
                      [acc EXCEPT !.cells = @ \o parse_page1_cells(page_data)])
             ELSE IF PageTypeAt(page_data, 100) = TABLE_INTERIOR
             THEN LET child_pages == ChildSet(page_data, 100)
                  IN  MasterLeafCells(p, i + 1,
                          [cells |-> acc.cells
                                       \o MasterChildCells(p, child_pages, 1),
                           pm |-> PutAll(acc.pm, child_pages, "sqlite_master")])
             ELSE MasterLeafCells(p, i + 1, acc)

\* wal_page_frames: page_num -> its latest WAL frame
wal_page_frames(p) ==
    [pg \in {p.frames[i].page_num : i \in 1..Len(p.frames)} |->
        LET last == CHOOSE i \in 1..Len(p.frames) :
                       /\ p.frames[i].page_num = pg
                       /\ \A j \in (i + 1)..Len(p.frames) :
                              p.frames[j].page_num # pg
        IN  p.frames[last]]

\* the owner a WAL-resident sqlite_master cell maps its root page to
CellOwner(vals) ==
    LET name == StrOr(vals[2], "")
        tbl_name == StrOr(vals[3], name)
    IN  IF StrOr(vals[1], "") = "table" THEN name
        ELSE IF tbl_name # "" THEN tbl_name ELSE name

KnownTableMutNever(m, name) == FALSE

\* "name not in col_map", negated
KnownTable(m, name) == name \in DOMAIN m.col_map

\* body of "for cell in master_leaf_cells"
\* m = [page_map, col_map, pk_col_idx, new_root_pages]
ScanCell(m, cell) ==
    LET vals == cell.values
    IN  IF Len(vals) < 5 THEN m
        ELSE
        LET obj_type == StrOr(vals[1], "")
            name == StrOr(vals[2], "")
            rootpage == vals[4]
            sql == StrOr(vals[5], "")
        IN  IF ~(name # "" /\ Truthy(rootpage)) THEN m
            \* int(rootpage) raises for what is not a number: the cell is passed over
            ELSE IF rootpage.t # "int" THEN m
            ELSE IF ~(rootpage.i > 0) THEN m
            ELSE IF obj_type = "table"
            THEN LET rp == rootpage.i
                     known == KnownTable(m, name)
                     col_names == _parse_create_columns(sql)
                     pk_i == _detect_pk_from_sql(sql)
                 IN  [page_map |-> DictPut(m.page_map, rp, CellOwner(vals)),
                      col_map |->
                          IF sql # "" /\ ~known /\ col_names # <<>>
                          THEN DictPut(m.col_map, name, col_names)
                          ELSE m.col_map,
                      pk_col_idx |->
                          IF sql # "" /\ ~known
                             /\ name \notin DOMAIN m.pk_col_idx /\ pk_i >= 0
                          THEN DictPut(m.pk_col_idx, name, pk_i)
                          ELSE m.pk_col_idx,
                      new_root_pages |->
                          IF OrdHas(m.new_root_pages, rp) THEN m.new_root_pages
                          ELSE OrdPut(m.new_root_pages, rp, name)]
            ELSE [m EXCEPT !.page_map = DictPut(@, rootpage.i, CellOwner(vals))]

RECURSIVE ScanCells(_, _, _)
ScanCells(m, cells, i) ==
    IF i > Len(cells) THEN m
    ELSE ScanCells(ScanCell(m, cells[i]), cells, i + 1)

\* DB._traverse_wal_btree(root_page, table_name, page_map, wal_page_frames, depth)
RECURSIVE _traverse_wal_btree(_, _, _, _, _, _)
RECURSIVE TraverseWalChildren(_, _, _, _, _, _, _)
_traverse_wal_btree(p, wpf, pm, root_page, table_name, depth) ==
    IF depth > MAX_DEPTH \/ (root_page \in DOMAIN pm /\ depth > 0) THEN pm
    ELSE IF root_page \notin DOMAIN wpf THEN pm
    ELSE IF wpf[root_page].page_type_byte
               \notin {INDEX_INTERIOR, TABLE_INTERIOR} THEN pm
    ELSE LET pm1 == DictPut(pm, root_page, table_name)
             page_data == get_page_data(p, wpf[root_page].index)
         IN  IF page_data = None \/ p.page_size < 12 THEN pm1
             ELSE TraverseWalChildren(p, wpf, pm1, ChildPointers(page_data, 0),
                                      1, table_name, depth)

TraverseWalChildren(p, wpf, pm, kids, i, table_name, depth) ==
    IF i > Len(kids) THEN pm
    ELSE IF kids[i] > 0
         THEN TraverseWalChildren(p, wpf,
                  _traverse_wal_btree(p, wpf,
                      DictPut(pm, kids[i], table_name),
                      kids[i], table_name, depth + 1),
                  kids, i + 1, table_name, depth)
         ELSE TraverseWalChildren(p, wpf, pm, kids, i + 1, table_name, depth)

\* "for root_pg, tname in new_root_pages.items()"
RECURSIVE TraverseNewRoots(_, _, _, _, _)
TraverseNewRoots(p, wpf, pm, new_root_pages, i) ==
    IF i > Len(new_root_pages) THEN pm
    ELSE TraverseNewRoots(p, wpf,
             _traverse_wal_btree(p, wpf, pm, new_root_pages[i][1],
                                 new_root_pages[i][2], 0),
             new_root_pages, i + 1)

\* DB._scan_wal_for_new_tables(page_map, col_map, pk_col_idx)
\* m = [page_map, col_map, pk_col_idx]
_scan_wal_for_new_tables(p, m) ==
    IF ~p.valid THEN m
    ELSE LET master == MasterLeafCells(p, 1, [cells |-> <<>>, pm |-> m.page_map])
             m1 == ScanCells([page_map |-> master.pm, col_map |-> m.col_map,
                              pk_col_idx |-> m.pk_col_idx,
                              new_root_pages |-> <<>>],
                             master.cells, 1)
         IN  [page_map |-> TraverseNewRoots(p, wal_page_frames(p), m1.page_map,
                                            m1.new_root_pages, 1),
              col_map |-> m1.col_map,
              pk_col_idx |-> m1.pk_col_idx]

\* the children of one mapped interior frame: "not in page_map" keeps what is there
RECURSIVE MapChildren(_, _, _, _)
MapChildren(pm, kids, i, table_name) ==
    IF i > Len(kids) THEN pm
    ELSE IF kids[i] > 0 /\ kids[i] \notin DOMAIN pm
         THEN MapChildren(DictPut(pm, kids[i], table_name), kids, i + 1,
                          table_name)
         ELSE MapChildren(pm, kids, i + 1, table_name)

\* DB._map_wal_interior_children(page_map)
RECURSIVE MapInteriorLoop(_, _, _)
MapInteriorLoop(p, pm, i) ==
    IF i > Len(p.frames) THEN pm
    ELSE LET frame == p.frames[i]
             page_data == get_page_data(p, frame.index)
         IN  IF frame.page_type_byte \notin {INDEX_INTERIOR, TABLE_INTERIOR}
             THEN MapInteriorLoop(p, pm, i + 1)
             ELSE IF frame.page_num \notin DOMAIN pm
             THEN MapInteriorLoop(p, pm, i + 1)
             ELSE IF page_data = None \/ p.page_size < 12
             THEN MapInteriorLoop(p, pm, i + 1)
             ELSE MapInteriorLoop(p,
                      MapChildren(pm, ChildPointers(page_data, 0), 1,
                                  pm[frame.page_num]),
                      i + 1)

_map_wal_interior_children(p, pm) ==
    IF ~p.valid THEN pm ELSE MapInteriorLoop(p, pm, 1)

\* DB._build_wal_page_map: the three maps it stores on the parser
_build_wal_page_map(p, e) ==
    LET seeded == SeedAndTraverse(e, p.page_size)
        scanned == _scan_wal_for_new_tables(p,
                       [page_map |-> seeded.page_map,
                        col_map |-> seeded.col_map,
                        pk_col_idx |-> seeded.pk_col_idx])
    IN  [page_map |-> _map_wal_interior_children(p, scanned.page_map),
         col_map |-> scanned.col_map,
         pk_col_idx |-> scanned.pk_col_idx]

----------------------------------------------------------------------------
(* WALParser: record recovery and search *)

SystemTablesMutNone == {}

\* ("sqlite_master", "sqlite_sequence")
SYSTEM_TABLES == {"sqlite_master", "sqlite_sequence"}

\* the parser's three maps as one record
Maps == [page_map |-> page_map, col_map |-> col_map, pk_col_idx |-> pk_col_idx]

TableOfMutNoMap(pm, page_num) == "page_" \o ToString(page_num)

\* self.page_map.get(frame.page_num, f"page_{frame.page_num}")
TableOf(pm, page_num) == DictGet(pm, page_num, "page_" \o ToString(page_num))

\* col_names[vi] if vi < len(col_names) else f"col{vi}"   (vi is 0-based)
ColName(col_names, vi) ==
    IF vi < Len(col_names) THEN col_names[vi + 1] ELSE "col" \o ToString(vi)

\* the displayed value of column vi of a cell
DisplayValue(v, vi, pk_idx, rowid) ==
    IF vi = pk_idx /\ v.t = "null" THEN ToString(rowid)
    ELSE IF v.t = "null" THEN "NULL"
    ELSE IF v.t = "blob" THEN "[BLOB]"
    ELSE PyStr(v)

\* values_dict / row_values: a dict filled in column order
RECURSIVE ValuesDict(_, _, _, _, _, _)
ValuesDict(values, vi, col_names, pk_idx, rowid, acc) ==
    IF vi >= Len(values) THEN acc
    ELSE ValuesDict(values, vi + 1, col_names, pk_idx, rowid,
             DictPut(acc, ColName(col_names, vi),
                     DisplayValue(values[vi + 1], vi, pk_idx, rowid)))

IsSchemaPageMutNever(cells) == FALSE

IsSchemaPageMutExact(cells) ==
    /\ cells # <<>>
    /\ LET first_vals == cells[1].values
       IN  /\ Len(first_vals) = 5
           /\ first_vals[1].t = "text"
           /\ first_vals[1].s \in {"table", "index", "view", "trigger"}
           /\ first_vals[5].t = "text"
           /\ StartsWithCreate(first_vals[5].s)

\* the sqlite_master shape test on the first decoded cell of a page
IsSchemaPage(cells) ==
    /\ cells # <<>>
    /\ LET first_vals == cells[1].values
       IN  /\ Len(first_vals) >= 5
           /\ first_vals[1].t = "text"
           /\ first_vals[1].s \in {"table", "index", "view", "trigger"}
           /\ first_vals[5].t = "text"
           /\ StartsWithCreate(first_vals[5].s)

\* the records one frame contributes to recover_all_records
RECURSIVE FrameRecords(_, _, _, _, _, _)
FrameRecords(frame, table_name, cells, col_names, pk_idx, k) ==
    IF k > Len(cells) THEN <<>>
    ELSE <<[table |-> table_name,
            rowid |-> cells[k].rowid,
            values_dict |-> ValuesDict(cells[k].values, 0, col_names, pk_idx,
                                       cells[k].rowid, EmptyDict),
            raw_values |-> cells[k].values,
            frame_idx |-> frame.index,
            page_num |-> frame.page_num,
            category |-> frame.category]>>
         \o FrameRecords(frame, table_name, cells, col_names, pk_idx, k + 1)

CategorySkipMutNever(category_filter, category) == FALSE

\* if category_filter and frame.category != category_filter: continue
CategorySkip(category_filter, category) ==
    category_filter # "" /\ category # category_filter

\* if table_filter and table_name != table_filter: continue
TableSkip(table_filter, table_name) ==
    table_filter # "" /\ table_name # table_filter

\* WALParser.recover_all_records(table_filter, category_filter,
\* include_schema), cancel = None; "" stands for a filter that is None or ""
RECURSIVE RecoverLoop(_, _, _, _, _, _)
RecoverLoop(p, m, i, table_filter, category_filter, include_schema) ==
    IF i > Len(p.frames) THEN <<>>
    ELSE
    LET frame == p.frames[i]
        table_name == TableOf(m.page_map, frame.page_num)
        cells == parse_leaf_cells(get_page_data(p, frame.index))
        rest == RecoverLoop(p, m, i + 1, table_filter, category_filter,
                            include_schema)
    IN  IF frame.page_type_byte # TABLE_LEAF THEN rest
        ELSE IF CategorySkip(category_filter, frame.category) THEN rest
        ELSE IF ~include_schema
                /\ (table_name \in SYSTEM_TABLES \/ frame.page_num = 1)
        THEN rest
        ELSE IF TableSkip(table_filter, table_name) THEN rest
        ELSE IF ~include_schema /\ IsSchemaPage(cells) THEN rest
        ELSE FrameRecords(frame, table_name, cells,
                          DictGet(m.col_map, table_name, <<>>),
                          DictGet(m.pk_col_idx, table_name, -1), 1) \o rest

recover_all_records(p, m, table_filter, category_filter, include_schema) ==
    IF ~p.valid THEN <<>>
    ELSE RecoverLoop(p, m, 1, table_filter, category_filter, include_schema)

\* str.lower(), and "t in s", tabulated for the texts of the model
Lower(s) ==
    CASE s = "Hello" -> "hello"
      [] s = "NULL" -> "null"
      [] OTHER -> s

Contains(s, t) == s = t \/ <<t, s>> \in {<<"hello", "hello-edited">>}

\* the match test of search; "Starts With", "Ends With" and "Regex" are
\* not modelled
Matched(mode, term, s) ==
    CASE mode = "Exact Match" -> s = term
      [] mode = "Case-Sensitive" -> Contains(s, term)
      [] OTHER -> Contains(Lower(s), Lower(term))

\* {"committed": "Saved", "uncommitted": "Unsaved", "old": "Overwritten"}
SourceLabel(category) ==
    CASE category = "committed" -> "Saved"
      [] category = "uncommitted" -> "Unsaved"
      [] category = "old" -> "Overwritten"
      [] OTHER -> category

\* the hits one cell contributes to search, before the limit is applied
RECURSIVE CellHits(_, _, _, _, _, _, _, _)
CellHits(frame, table_name, cell, col_names, pk_idx, ci, mode, term) ==
    IF ci >= Len(cell.values) THEN <<>>
    ELSE
    LET raw == cell.values[ci + 1]
        isPk == (ci = pk_idx /\ raw.t = "null")
        rest == CellHits(frame, table_name, cell, col_names, pk_idx, ci + 1,
                         mode, term)
        str == IF isPk THEN ToString(cell.rowid) ELSE PyStr(raw)
    IN  IF ~isPk /\ raw.t \in {"null", "blob"} THEN rest
        ELSE IF ~Matched(mode, term, str) THEN rest
        ELSE <<[table |-> table_name,
                column |-> ColName(col_names, ci),
                rowid |-> cell.rowid,
                value |-> str,
                type |-> IF isPk THEN "integer"
                         ELSE IF raw.t = "int" THEN "integer" ELSE "text",
                frame_idx |-> frame.index,
                page_num |-> frame.page_num,
                category |-> frame.category,
                source |-> "WAL (" \o SourceLabel(frame.category) \o ")",
                row_data |-> ValuesDict(cell.values, 0, col_names, pk_idx,
                                        cell.rowid, EmptyDict)]>> \o rest

RECURSIVE FrameHits(_, _, _, _, _, _, _, _)
FrameHits(frame, table_name, cells, col_names, pk_idx, k, mode, term) ==
    IF k > Len(cells) THEN <<>>
    ELSE CellHits(frame, table_name, cells[k], col_names, pk_idx, 0, mode, term)
         \o FrameHits(frame, table_name, cells, col_names, pk_idx, k + 1,
                      mode, term)

RECURSIVE SearchLoop(_, _, _, _, _)
SearchLoop(p, m, i, mode, term) ==
    IF i > Len(p.frames) THEN <<>>
    ELSE
    LET frame == p.frames[i]
        table_name == TableOf(m.page_map, frame.page_num)
        cells == parse_leaf_cells(get_page_data(p, frame.index))
        rest == SearchLoop(p, m, i + 1, mode, term)
    IN  IF frame.page_type_byte # TABLE_LEAF THEN rest
        ELSE IF frame.page_num = 1 THEN rest
        ELSE IF table_name \in SYSTEM_TABLES THEN rest
        ELSE FrameHits(frame, table_name, cells,
                       DictGet(m.col_map, table_name, <<>>),
                       DictGet(m.pk_col_idx, table_name, -1), 1, mode, term)
             \o rest

TakeMutAll(sq, n) == sq

Take(sq, n) == IF Len(sq) <= n THEN sq ELSE SubSeq(sq, 1, n)

\* WALParser.search(term, mode, limit), cancel = None: the first `limit`
\* matches in scan order (found >= limit ends the generator)
search(p, m, term, mode, limit) ==
    IF ~p.valid \/ term = "" THEN <<>>
    ELSE IF limit <= 0 THEN <<>>
    ELSE Take(SearchLoop(p, m, 1, mode, term), limit)

----------------------------------------------------------------------------
(* WALParser.table_stats and WALParser.transaction_groups *)

CellCountMutDecoded(page_data) == Len(parse_leaf_cells(page_data))

\* int.from_bytes(page_data[3:5], "big"): the cell count the page header
\* declares, which is the length of its cell-pointer array
CellCount(page_data) == Len(CellsAt(page_data, 0))

\* the per-table entry created on first sight of a table
NewStats ==
    [total_records |-> 0, committed |-> 0, uncommitted |-> 0, old |-> 0,
     frames |-> 0, pages |-> {}, is_wal_only |-> FALSE]

\* s[frame.category] += cell_count
AddToCategory(s, category, n) ==
    CASE category = "committed" -> [s EXCEPT !.committed = @ + n]
      [] category = "uncommitted" -> [s EXCEPT !.uncommitted = @ + n]
      [] OTHER -> [s EXCEPT !.old = @ + n]

RECURSIVE TableStatsLoop(_, _, _, _)
TableStatsLoop(p, m, i, stats) ==
    IF i > Len(p.frames) THEN stats
    ELSE
    LET frame == p.frames[i]
        mapped == frame.page_num \in DOMAIN m.page_map
        table_name == m.page_map[frame.page_num]
    IN  IF frame.page_type_byte # TABLE_LEAF
        THEN TableStatsLoop(p, m, i + 1, stats)
        ELSE IF \/ ~mapped
                \/ table_name = ""
                \/ table_name \in SYSTEM_TABLES
                \/ frame.page_num = 1
        THEN TableStatsLoop(p, m, i + 1, stats)
        ELSE
        LET s0 == DictGet(stats, table_name, NewStats)
            s1 == [s0 EXCEPT !.frames = @ + 1,
                             !.pages = @ \cup {frame.page_num}]
            page_data == get_page_data(p, frame.index)
            s2 == IF page_data = None THEN s1
                  ELSE AddToCategory(
                           [s1 EXCEPT !.total_records =
                                          @ + CellCount(page_data)],
                           frame.category, CellCount(page_data))
        IN  TableStatsLoop(p, m, i + 1, DictPut(stats, table_name, s2))

\* WALParser.table_stats()
table_stats(p, m) ==
    IF ~p.valid THEN EmptyDict ELSE TableStatsLoop(p, m, 1, EmptyDict)

\* sorted(set(...)) of page numbers
RECURSIVE Sorted(_)
Sorted(S) ==
    IF S = {} THEN <<>>
    ELSE LET lo == CHOOSE x \in S : \A y \in S : x <= y
         IN  <<lo>> \o Sorted(S \ {lo})

\* the dict appended to groups for the frames grp of the group `current`
Group(current, grp, end_frame, committed) ==
    [start_frame |-> current.start_frame,
     end_frame |-> end_frame,
     frame_count |-> Len(grp),
     pages |-> Sorted({grp[k].page_num : k \in 1..Len(grp)}),
     committed |-> committed,
     salt1 |-> current.salt1,
     salt2 |-> current.salt2]

CurrentMutStartZero(start_frame, fs, salt1, salt2) ==
    [start_frame |-> 0, frames |-> fs, salt1 |-> salt1, salt2 |-> salt2]

\* current = {"start_frame": ..., "frames": [...], "salt1": ..., "salt2": ...}
Current(start_frame, fs, salt1, salt2) ==
    [start_frame |-> start_frame, frames |-> fs, salt1 |-> salt1,
     salt2 |-> salt2]

\* the body of "for i in range(1, len(self.frames))"; i is 0-based
RECURSIVE GroupsLoop(_, _, _, _)
GroupsLoop(fs, i, current, groups) ==
    IF i >= Len(fs)
    THEN \* the uncommitted tail: salts read with current.get(..., 0)
         IF current.frames # <<>>
         THEN Append(groups,
                     Group(current, current.frames,
                           current.frames[Len(current.frames)].index, FALSE))
         ELSE groups
    ELSE
    LET f == fs[i + 1]
        same == (f.salt1 = current.salt1 /\ f.salt2 = current.salt2)
        \* after the salt test
        cur1 == IF same THEN [current EXCEPT !.frames = Append(@, f)]
                ELSE Current(f.index, <<f>>, f.salt1, f.salt2)
        grp0 == current.frames
        groups1 == IF same THEN groups
                   ELSE Append(groups,
                               Group(current, grp0, grp0[Len(grp0)].index,
                                     \E k \in 1..Len(grp0) :
                                         grp0[k].commit_size > 0))
    IN  IF f.commit_size > 0
        THEN LET groups2 == Append(groups1,
                                   Group(cur1, cur1.frames, f.index, TRUE))
                 \* {"frames": []} when no frame follows: no salts are kept
                 cur2 == IF i + 1 < Len(fs)
                         THEN Current(fs[i + 2].index, <<>>,
                                      fs[i + 2].salt1, fs[i + 2].salt2)
                         ELSE Current(0, <<>>, 0, 0)
             IN  GroupsLoop(fs, i + 1, cur2, groups2)
        ELSE GroupsLoop(fs, i + 1, cur1, groups1)

\* WALParser.transaction_groups()
transaction_groups(p) ==
    IF ~p.valid \/ p.frames = <<>> THEN <<>>
    ELSE GroupsLoop(p.frames, 1,
                    Current(0, <<p.frames[1]>>, p.frames[1].salt1,
                            p.frames[1].salt2), <<>>)

----------------------------------------------------------------------------
(* DB operations *)

\* DB.tables(): the table names the live connection sees
tables(e) ==
    IF ~db.conn THEN {}
    ELSE {e.schema[i].name :
             i \in {k \in 1..Len(e.schema) : e.schema[k].type = "table"}}

\* DB.wal_tables()
wal_tables(p, m, e) ==
    IF ~p.valid THEN {}
    ELSE ((DOMAIN m.col_map) \ tables(e)) \ SYSTEM_TABLES

SetMaps(m) ==
    /\ page_map' = m.page_map
    /\ col_map' = m.col_map
    /\ pk_col_idx' = m.pk_col_idx

NoMaps == [page_map |-> EmptyDict, col_map |-> EmptyDict,
           pk_col_idx |-> EmptyDict]

\* DB.__init__: no connection, no backup path; pc is the position inside
\* DB.open ("idle": not inside it)
DbInit ==
    [conn |-> FALSE, search_conn |-> FALSE, wal_backup |-> FALSE,
     pc |-> "idle"]

\* os.path.isfile(wal_path) and os.path.getsize(wal_path) > 0
HasWal(e) == e.wal # None /\ e.wal.size > 0

\* DB.open(path) as one step, in an environment that holds no earlier
\* backup and where nothing touches the WAL meanwhile: close, copy the WAL,
\* connect twice, open a fresh parser on the copy (which equals the WAL),
\* build the maps
DbOpen ==
    LET p == OpenResult(env.wal)
    IN  /\ db.pc = "idle"
        /\ SetParser(p)
        /\ db' = [db EXCEPT !.conn = TRUE, !.search_conn = TRUE,
                            !.wal_backup = HasWal(env)]
        /\ SetMaps(IF p.valid THEN _build_wal_page_map(p, env) ELSE NoMaps)
        /\ out' = [op |-> "db_open"]
        /\ UNCHANGED <<app, env, walk, gen>>

\* DB.close(): the connections and the parser are released (self._wal =
\* None) and the backup path forgotten; the backup file stays.  The maps
\* are read again only after the next open has set them
DbClose ==
    /\ db.pc = "idle"
    /\ SetParser(NotOpen)
    /\ db' = [db EXCEPT !.conn = FALSE, !.search_conn = FALSE,
                        !.wal_backup = FALSE]
    /\ out' = [op |-> "db_close"]
    /\ UNCHANGED <<app, mapVars, env, walk, gen>>

\* DB._build_wal_page_map() called on the open database
BuildWalPageMap ==
    /\ db.conn /\ _valid
    /\ SetMaps(_build_wal_page_map(Parser, env))
    /\ out' = [op |-> "build", before |-> Maps]
    /\ UNCHANGED <<app, parserVars, env, db, walk, gen>>

WalTables ==
    /\ db.conn
    /\ out' = [op |-> "wal_tables", result |-> wal_tables(Parser, Maps, env)]
    /\ UNCHANGED <<app, parserVars, mapVars, env, db, walk, gen>>

RecoverAllRecords(table_filter, category_filter) ==
    /\ db.conn
    /\ out' = [op |-> "recover", table_filter |-> table_filter,
               category_filter |-> category_filter,
               records |-> recover_all_records(Parser, Maps, table_filter,
                                               category_filter, FALSE)]
    /\ UNCHANGED <<app, parserVars, mapVars, env, db, walk, gen>>

Search(term, mode, limit) ==
    /\ db.conn
    /\ out' = [op |-> "search", term |-> term, mode |-> mode,
               limit |-> limit,
               hits |-> search(Parser, Maps, term, mode, limit)]
    /\ UNCHANGED <<app, parserVars, mapVars, env, db, walk, gen>>

\* WALParser.table_stats()
TableStats ==
    /\ out' = [op |-> "table_stats", result |-> table_stats(Parser, Maps)]
    /\ UNCHANGED <<app, parserVars, mapVars, env, db, walk, gen>>

\* WALParser.transaction_groups()
TransactionGroups ==
    /\ out' = [op |-> "transaction_groups",
               result |-> transaction_groups(Parser)]
    /\ UNCHANGED <<app, parserVars, mapVars, env, db, walk, gen>>

\* WALParser.get_page_data(frame_index)
GetPageData(frame_index) ==
    /\ out' = [op |-> "get_page_data", frame_index |-> frame_index,
               result |-> get_page_data(Parser, frame_index)]
    /\ UNCHANGED <<app, parserVars, mapVars, env, db, walk, gen>>

----------------------------------------------------------------------------
(* DB.open one statement group at a time, over a file system that holds    *)
(* the WAL (env.wal, env.wal_mtime) and the backup '<db>-wal.bak' (env.bak,*)
(* env.bak_mtime), and where opening a connection lets SQLite checkpoint   *)
(* the WAL: the file is left as it was, truncated to 0 bytes or deleted.   *)

\* modification times are 1..MaxTime
MaxTime == 3

EmptyFile ==
    [magic |-> 0, page_size |-> 0, salt1 |-> 0, salt2 |-> 0, slots |-> <<>>,
     size |-> 0]

NeedBackupMutAlways(e) == TRUE

\* need_backup: no backup yet, or an empty one, or one older than the WAL
NeedBackup(e) ==
    ~(e.bak # None /\ e.bak.size > 0 /\ e.bak_mtime >= e.wal_mtime)

\* what sqlite3.connect may do to the WAL file
ConnectEffects == {"keep", "truncate", "delete"}
AfterConnect(e, effect) ==
    CASE effect = "truncate" /\ e.wal # None -> [e EXCEPT !.wal = EmptyFile]
      [] effect = "delete" -> [e EXCEPT !.wal = None]
      [] OTHER -> e

\* self.close() and the forensic copy; copy_fails: the try block raises
DbOpenBackup(copy_fails) ==
    /\ db.pc = "idle"
    /\ SetParser(NotOpen)
    /\ LET copied == HasWal(env) /\ NeedBackup(env) /\ ~copy_fails
       IN  /\ env' = IF copied
                     THEN [env EXCEPT !.bak = env.wal,
                                      !.bak_mtime = env.wal_mtime]
                     ELSE env
           /\ db' = [conn |-> FALSE, search_conn |-> FALSE,
                     wal_backup |-> HasWal(env) /\ ~copy_fails,
                     pc |-> "connect"]
           /\ out' = [op |-> "db_open_begin", start |-> env,
                      copy_fails |-> copy_fails, copied |-> copied]
    /\ UNCHANGED <<app, mapVars, walk, gen>>

\* self._conn = sqlite3.connect(uri, ...)
DbOpenConnect(effect) ==
    /\ db.pc = "connect"
    /\ db' = [db EXCEPT !.conn = TRUE, !.pc = "search_connect"]
    /\ env' = AfterConnect(env, effect)
    /\ UNCHANGED <<app, parserVars, mapVars, walk, out, gen>>

\* self._search_conn = sqlite3.connect(uri, ...)
DbOpenSearchConnect(effect) ==
    /\ db.pc = "search_connect"
    /\ db' = [db EXCEPT !.search_conn = TRUE, !.pc = "parser"]
    /\ env' = AfterConnect(env, effect)
    /\ UNCHANGED <<app, parserVars, mapVars, walk, out, gen>>

WalSourceMutOriginal(d) == "original"

\* if wal_backup: open_wal_file(wal_backup, path) else: open(path)
WalSource(d) == IF d.wal_backup THEN "backup" ELSE "original"

\* self._wal = WALParser(), opened on the chosen file; the maps are built
DbOpenParser ==
    LET source == WalSource(db)
        p == OpenResult(IF source = "backup" THEN env.bak ELSE env.wal)
    IN  /\ db.pc = "parser"
        /\ SetParser(p)
        /\ SetMaps(IF p.valid THEN _build_wal_page_map(p, env) ELSE NoMaps)
        /\ db' = [db EXCEPT !.pc = "idle"]
        /\ out' = [op |-> "db_open_done", start |-> out.start,
                   copy_fails |-> out.copy_fails, copied |-> out.copied]
        /\ UNCHANGED <<app, env, walk, gen>>

\* another process writes the WAL while no DB.open is running
WalWritten(file) ==
    /\ db.pc = "idle"
    /\ env.wal_mtime < MaxTime
    /\ env' = [env EXCEPT !.wal = file, !.wal_mtime = @ + 1]
    /\ out' = [op |-> "wal_written"]
    /\ UNCHANGED <<app, parserVars, mapVars, db, walk, gen>>

----------------------------------------------------------------------------
(* App._load_all_wal_records: the diff status of every recovered record    *)
(* against the live row of the same rowid.  env.rows holds the live rows   *)
(* as [table, rowid, values], values in the order of the table's columns.  *)

RECURSIVE RowDict(_, _, _, _)
RowDict(cols, values, i, acc) ==
    IF i > Len(cols) \/ i > Len(values) THEN acc
    ELSE RowDict(cols, values, i + 1, DictPut(acc, cols[i].name, values[i]))

\* DB.full_row(tbl, rid)[0]: dict(zip(cols, row)), {} without a row or when
\* the statement fails (no such table)
full_row(e, tbl, rid) ==
    IF ~db.conn THEN EmptyDict
    ELSE LET found == {r \in e.rows : r.table = tbl /\ r.rowid = rid}
             decl == {k \in 1..Len(e.schema) :
                         e.schema[k].type = "table" /\ e.schema[k].name = tbl}
         IN  IF decl = {} \/ found = {} THEN EmptyDict
             ELSE LET row == CHOOSE r \in found : TRUE
                      k == CHOOSE x \in decl : TRUE
                  IN  RowDict(e.schema[k].cols, row.values, 1,
                              DictPut(EmptyDict, "_rid", VInt(rid)))

\* "NULL" if db_v is None else str(db_v)
DbStr(db_v) == IF db_v.t = "null" THEN "NULL" ELSE PyStr(db_v)

\* the columns of the WAL record that are missing from the live row or
\* whose strings differ
DiffCols(vals, db_row) ==
    {col_name \in DOMAIN vals :
        \/ col_name \notin DOMAIN db_row
        \/ DbStr(db_row[col_name]) # vals[col_name]}

AbsentStatusMutAlwaysWalTable(tbl, wal_only_tables) == "wal_table"

\* "wal_table" if tbl in wal_only_tables else "not_in_db"
AbsentStatus(tbl, wal_only_tables) ==
    IF tbl \in wal_only_tables THEN "wal_table" ELSE "not_in_db"

\* the body of "for rec in records"
DiffRecord(rec, db_tables, wal_only_tables, e) ==
    LET vals == rec.values_dict
        db_row == full_row(e, rec.table, rec.rowid)
        diff_cols == DiffCols(vals, db_row)
    IN  IF rec.table \notin db_tables
        THEN [rec |-> rec,
              _diff_status |-> AbsentStatus(rec.table, wal_only_tables),
              _diff_cols |-> DOMAIN vals]
        ELSE IF db_row = EmptyDict
        THEN [rec |-> rec, _diff_status |-> "not_in_db",
              _diff_cols |-> DOMAIN vals]
        ELSE [rec |-> rec,
              _diff_status |-> IF diff_cols # {} THEN "different" ELSE "same",
              _diff_cols |-> diff_cols]

\* App._load_all_wal_records with the filter bar set to tf / sf
_load_all_wal_records(p, m, e, tf, sf) ==
    LET records == recover_all_records(p, m, tf, sf, FALSE)
    IN  [n \in 1..Len(records) |->
            DiffRecord(records[n], tables(e), wal_tables(p, m, e), e)]

LoadAllWalRecords(tf, sf) ==
    /\ db.conn /\ _valid
    /\ out' = [op |-> "load_all",
               records |-> _load_all_wal_records(Parser, Maps, env, tf, sf)]
    /\ UNCHANGED <<app, parserVars, mapVars, env, db, walk, gen>>

----------------------------------------------------------------------------
(* search and recover_all_records as the generators they are, one poll of  *)
(* the cancel callback at a time.  gen.i is the 1-based number of the      *)
(* frame the for loop is at, gen.k the number of the cell; gen.cancel is   *)
(* the flag the callback reads, set by another thread at any moment;       *)
(* gen.cancel_frame remembers the last frame begun when it was set.        *)

GenIdle ==
    [pc |-> "done", kind |-> "", table_filter |-> "", category_filter |-> "",
     term |-> "", mode |-> "", limit |-> 0, i |-> 0, k |-> 0,
     cells |-> <<>>, yielded |-> <<>>, cancel |-> FALSE, cancel_frame |-> 0]

PolledMutNever(g) == FALSE

\* if cancel and cancel(): return
Polled(g) == g.cancel

\* if found >= limit: return    (search only)
LimitReached(g) == g.kind = "search" /\ Len(g.yielded) >= g.limit

\* the frame-level "continue" tests of the two loops
FrameSkipped(g, frame, table_name) ==
    IF g.kind = "search"
    THEN \/ frame.page_type_byte # TABLE_LEAF
         \/ frame.page_num = 1
         \/ table_name \in SYSTEM_TABLES
    ELSE \/ frame.page_type_byte # TABLE_LEAF
         \/ CategorySkip(g.category_filter, frame.category)
         \/ table_name \in SYSTEM_TABLES
         \/ frame.page_num = 1
         \/ TableSkip(g.table_filter, table_name)

\* the results the cell gen.k of the current frame yields
CellYield(g, p, m) ==
    LET frame == p.frames[g.i]
        table_name == TableOf(m.page_map, frame.page_num)
        col_names == DictGet(m.col_map, table_name, <<>>)
        pk_idx == DictGet(m.pk_col_idx, table_name, -1)
    IN  IF g.kind = "search"
        THEN Take(CellHits(frame, table_name, g.cells[g.k], col_names,
                           pk_idx, 0, g.mode, g.term),
                  g.limit - Len(g.yielded))
        ELSE <<FrameRecords(frame, table_name, g.cells, col_names, pk_idx,
                            g.k)[1]>>

\* the call: the generator body runs up to its first loop
GenStart(kind, table_filter, category_filter, term, mode, limit) ==
    /\ db.conn /\ db.pc = "idle"
    /\ gen.pc = "done"
    /\ gen' = [GenIdle EXCEPT
                  !.kind = kind, !.table_filter = table_filter,
                  !.category_filter = category_filter, !.term = term,
                  !.mode = mode, !.limit = limit, !.i = 1,
                  !.pc = IF ~_valid \/ (kind = "search" /\ term = "")
                         THEN "done" ELSE "frame"]
    /\ UNCHANGED <<app, parserVars, mapVars, env, db, walk, out>>

\* the top of "for frame in self.frames": the poll, then the frame tests
GenFrame ==
    /\ gen.pc = "frame"
    /\ gen' =
         IF gen.i > Len(frames) THEN [gen EXCEPT !.pc = "done"]
         ELSE IF Polled(gen) \/ LimitReached(gen) THEN [gen EXCEPT !.pc = "done"]
         ELSE
         LET frame == frames[gen.i]
             table_name == TableOf(page_map, frame.page_num)
             cells == parse_leaf_cells(get_page_data(Parser, frame.index))
         IN  IF FrameSkipped(gen, frame, table_name)
             THEN [gen EXCEPT !.i = @ + 1]
             ELSE IF gen.kind = "recover" /\ IsSchemaPage(cells)
             THEN [gen EXCEPT !.i = @ + 1]
             ELSE [gen EXCEPT !.pc = "cell", !.k = 1, !.cells = cells]
    /\ UNCHANGED <<app, parserVars, mapVars, env, db, walk, out>>

\* the top of "for cell in cells": the poll
GenCell ==
    /\ gen.pc = "cell"
    /\ gen' =
         IF gen.k > Len(gen.cells)
         THEN [gen EXCEPT !.pc = "frame", !.i = @ + 1, !.cells = <<>>]
         ELSE IF Polled(gen) \/ LimitReached(gen) THEN [gen EXCEPT !.pc = "done"]
         ELSE [gen EXCEPT !.pc = "yield"]
    /\ UNCHANGED <<app, parserVars, mapVars, env, db, walk, out>>

\* the rest of the cell loop body: the yields of this cell
GenYield ==
    /\ gen.pc = "yield"
    /\ LET ys == gen.yielded \o CellYield(gen, Parser, Maps)
       IN  gen' = [gen EXCEPT
                      !.yielded = ys,
                      !.k = @ + 1,
                      !.pc = IF gen.kind = "search" /\ Len(ys) >= gen.limit
                             THEN "done" ELSE "cell"]
    /\ UNCHANGED <<app, parserVars, mapVars, env, db, walk, out>>

\* another thread makes the callback return true from now on
Cancel ==
    /\ gen.pc # "done"
    /\ ~gen.cancel
    /\ gen' = [gen EXCEPT !.cancel = TRUE,
                          !.cancel_frame = IF gen.pc = "frame" THEN gen.i - 1
                                           ELSE gen.i]
    /\ UNCHANGED <<app, parserVars, mapVars, env, db, walk, out>>

----------------------------------------------------------------------------
(* app.py: the search of the main window.  _do_search runs on the UI       *)
(* thread and _search_worker on a thread of its own; the two share         *)
(* _search_cancel, _search_results and _search_thread, so _do_search is    *)
(* taken one statement at a time and the worker one loop pass at a time.   *)
(* A thread is known by its position in app.threads; _search_thread is 0   *)
(* for None.  A result carries the number of the worker that found it.     *)

MaxSearches == 3   \* searches started in one run
MaxTodo == 2       \* results waiting for one worker

\* App.__init__: no search thread, the flag down, no results
AppInit ==
    [_search_cancel |-> FALSE, _search_thread |-> 0, _search_results |-> <<>>,
     threads |-> <<>>, pc |-> "idle"]

\* Thread.is_alive()
is_alive(t) == app.threads[t].pc # "done"

\* the Stop button
_stop_search ==
    [app EXCEPT !._search_cancel = TRUE]

StopSearch ==
    /\ app.pc = "idle"
    /\ app' = _stop_search
    /\ out' = [op |-> "_stop_search"]
    /\ UNCHANGED <<parserVars, mapVars, env, db, walk, gen>>

\* _do_search up to the wait: the early return, or _stop_search()
DoSearch(term) ==
    /\ app.pc = "idle"
    /\ app' = IF term = "" \/ ~db.conn THEN app
              ELSE [_stop_search EXCEPT !.pc = "join"]
    /\ out' = [op |-> "_do_search", term |-> term]
    /\ UNCHANGED <<parserVars, mapVars, env, db, walk, gen>>

\* the wait is skipped when there is no live thread
JoinNeeded == app._search_thread # 0 /\ is_alive(app._search_thread)

\* join(timeout=3) returns when the thread has ended, or when the three
\* seconds are over with the thread still running
DoSearchJoin(timed_out) ==
    /\ app.pc = "join"
    /\ JoinNeeded => (timed_out \/ ~is_alive(app._search_thread))
    /\ ~JoinNeeded => ~timed_out
    /\ app' = [app EXCEPT !.pc = "reset_cancel"]
    /\ out' = [op |-> "join", timed_out |-> timed_out]
    /\ UNCHANGED <<parserVars, mapVars, env, db, walk, gen>>

\* self._search_cancel = False
DoSearchResetCancel ==
    /\ app.pc = "reset_cancel"
    /\ app' = [app EXCEPT !._search_cancel = FALSE, !.pc = "reset_results"]
    /\ out' = [op |-> "reset_cancel"]
    /\ UNCHANGED <<parserVars, mapVars, env, db, walk, gen>>

\* self._search_results = []
DoSearchResetResults ==
    /\ app.pc = "reset_results"
    /\ app' = [app EXCEPT !._search_results = <<>>, !.pc = "start"]
    /\ out' = [op |-> "reset_results"]
    /\ UNCHANGED <<parserVars, mapVars, env, db, walk, gen>>

\* the thread is made and started; `todo` results are what db.search and
\* wal.search will yield to this worker
DoSearchStart(todo) ==
    /\ app.pc = "start"
    /\ Len(app.threads) < MaxSearches
    /\ app' = [app EXCEPT
                  !.threads = Append(@, [pc |-> "poll", todo |-> todo]),
                  !._search_thread = Len(app.threads) + 1,
                  !.pc = "idle"]
    /\ out' = [op |-> "start"]
    /\ UNCHANGED <<parserVars, mapVars, env, db, walk, gen>>

\* _search_worker at "if self._search_cancel: break", or at the end of the
\* generators: the worker goes on to the append, or ends
WorkerPoll(t) ==
    /\ t \in DOMAIN app.threads
    /\ app.threads[t].pc = "poll"
    /\ app' = [app EXCEPT
                  !.threads[t].pc =
                      IF app._search_cancel \/ app.threads[t].todo = 0
                      THEN "done" ELSE "append"]
    /\ out' = [op |-> "worker_poll", thread |-> t]
    /\ UNCHANGED <<parserVars, mapVars, env, db, walk, gen>>

\* self._search_results.append(result): the list is looked up when the
\* statement runs
WorkerAppend(t) ==
    /\ t \in DOMAIN app.threads
    /\ app.threads[t].pc = "append"
    /\ app' = [app EXCEPT
                  !._search_results = Append(@, t),
                  !.threads[t].todo = @ - 1,
                  !.threads[t].pc = "poll"]
    /\ out' = [op |-> "worker_append", thread |-> t]
    /\ UNCHANGED <<parserVars, mapVars, env, db, walk, gen>>

----------------------------------------------------------------------------
(* DB._traverse_btree_pages one step at a time: the recursion of           *)
(* _walk_interior as an explicit call stack.  walk.expanded, walk.reads    *)
(* and walk.refused record what the run did: the calls that passed the     *)
(* guard, the pages read from the file, and why a call or a read was not   *)
(* made.                                                                   *)

WalkPc == IF walk = None THEN "idle" ELSE walk.pc

\* where control goes when a call of _walk_interior returns
WalkReturnTo(stack) == IF stack = <<>> THEN "roots" ELSE "loop"

\* _traverse_btree_pages is entered with the seeded root_pages and page_map
TraverseBegin ==
    /\ walk = None
    /\ gen = GenIdle
    /\ walk' = [pc |-> "roots",
                root_pages |-> SeedLive(env).root_pages, r |-> 1,
                call |-> None, stack |-> <<>>, visited |-> {},
                pm |-> SeedLive(env).page_map,
                expanded |-> <<>>, reads |-> {}, refused |-> {}]
    /\ out' = [op |-> "traverse"]
    /\ UNCHANGED <<app, parserVars, mapVars, env, db, gen>>

\* for root_page, table_name in root_pages.items(): _walk_interior(...)
WalkNextRoot ==
    /\ WalkPc = "roots"
    /\ walk' = IF walk.r > Len(walk.root_pages)
               THEN [walk EXCEPT !.pc = "done"]
               ELSE [walk EXCEPT
                        !.pc = "call",
                        !.call = [page_num |-> walk.root_pages[walk.r][1],
                                  table_name |-> walk.root_pages[walk.r][2],
                                  depth |-> 0],
                        !.r = @ + 1]
    /\ UNCHANGED <<app, parserVars, mapVars, env, db, out, gen>>

\* _walk_interior from its entry to its first child or its return
WalkEnter ==
    /\ WalkPc = "call"
    /\ LET c == walk.call
           data == _read_page(env.dbfile, c.page_num)
           hdr_offset == IF c.page_num = 1 THEN 100 ELSE 0
           entered == [walk EXCEPT
                          !.call = None,
                          !.visited = @ \cup {c.page_num},
                          !.pm = DictPut(@, c.page_num, c.table_name),
                          !.expanded = Append(@, [page_num |-> c.page_num,
                                                  depth |-> c.depth])]
       IN  walk' =
             IF WalkGuard(c.depth, c.page_num, walk.visited)
             THEN [walk EXCEPT
                      !.call = None, !.pc = WalkReturnTo(walk.stack),
                      !.refused = @ \cup {IF c.depth > MAX_DEPTH
                                          THEN "depth" ELSE "visited"}]
             ELSE IF data = None
             THEN [entered EXCEPT !.pc = WalkReturnTo(walk.stack),
                                  !.refused = @ \cup {"range"}]
             ELSE IF PageTypeAt(data, hdr_offset)
                        \notin {INDEX_INTERIOR, TABLE_INTERIOR}
             THEN [entered EXCEPT !.pc = WalkReturnTo(walk.stack),
                                  !.reads = @ \cup {c.page_num}]
             ELSE [entered EXCEPT
                      !.pc = "loop",
                      !.reads = @ \cup {c.page_num},
                      !.stack = Append(@,
                          [table_name |-> c.table_name, depth |-> c.depth,
                           kids |-> ChildPointers(data, hdr_offset),
                           i |-> 1])]
    /\ UNCHANGED <<app, parserVars, mapVars, env, db, out, gen>>

\* the right child, then one iteration of "for i in range(cell_count)"
WalkChild ==
    /\ WalkPc = "loop"
    /\ LET n == Len(walk.stack)
           top == walk.stack[n]
       IN  walk' =
             IF top.i > Len(top.kids)
             THEN [walk EXCEPT !.stack = SubSeq(@, 1, n - 1),
                               !.pc = WalkReturnTo(SubSeq(walk.stack, 1, n - 1))]
             ELSE IF top.kids[top.i] > 0
             THEN [walk EXCEPT
                      !.stack[n].i = @ + 1,
                      !.pm = DictPut(@, top.kids[top.i], top.table_name),
                      !.call = [page_num |-> top.kids[top.i],
                                table_name |-> top.table_name,
                                depth |-> top.depth + 1],
                      !.pc = "call"]
             ELSE [walk EXCEPT !.stack[n].i = @ + 1]
    /\ UNCHANGED <<app, parserVars, mapVars, env, db, out, gen>>

SeqsUpTo(S, n) == UNION {[1..k -> S] : k \in 0..n}

----------------------------------------------------------------------------
(* Specification Spec: the frame reader.  WAL files with every combination *)
(* of frame salts and commit markers are opened, closed and summarised.    *)

MaxFrames == 2
SaltValues == {1, 2}
CommitSizes == {0, 3}

RawFrames ==
    [page_num : {2, 3}, commit_size : CommitSizes,
     salt1 : SaltValues, salt2 : SaltValues,
     page : {LeafPage(<<>>), FreePage}]

FullSize(ps, n) == WAL_HEADER_SIZE + n * (WAL_FRAME_HEADER_SIZE + ps)

FramePageSize == 512

WalFiles ==
    {[magic |-> m, page_size |-> FramePageSize, salt1 |-> 1, salt2 |-> h2,
      slots |-> s, size |-> FullSize(FramePageSize, Len(s))] :
        m \in {WAL_MAGIC_BE, WAL_MAGIC_LE, 0}, h2 \in SaltValues,
        s \in SeqsUpTo(RawFrames, MaxFrames)}

\* the state after WALParser() and DB(), in an environment that holds `e`
InitIn(e) ==
    /\ SetParserInit
    /\ page_map = EmptyDict
    /\ col_map = EmptyDict
    /\ pk_col_idx = EmptyDict
    /\ env = e
    /\ db = DbInit
    /\ walk = None
    /\ gen = GenIdle
    /\ app = AppInit
    /\ out = [op |-> "init"]

NoSchema == <<>>
NoDbFile == <<>>

Init == \E w \in WalFiles \cup {None} :
            InitIn([wal |-> w, schema |-> NoSchema, dbfile |-> NoDbFile])

Next ==
    \/ OpenWalFile(env.wal)
    \/ Close
    \/ Summary

Spec == Init /\ [][Next]_vars

----------------------------------------------------------------------------
(* Specification SpecTrunc: a WAL file cut at every byte offset. *)

TruncPageSizes == {3, 8}

TruncFrames ==
    {[page_num |-> 2, commit_size |-> 3, salt1 |-> 1, salt2 |-> 1,
      page |-> LeafPage(<<>>)],
     [page_num |-> 3, commit_size |-> 0, salt1 |-> 2, salt2 |-> 1,
      page |-> FreePage]}

TruncFiles ==
    {[magic |-> WAL_MAGIC_BE, page_size |-> ps, salt1 |-> 1, salt2 |-> 1,
      slots |-> s, size |-> n] :
        ps \in TruncPageSizes, s \in SeqsUpTo(TruncFrames, MaxFrames + 1),
        n \in 0..(WAL_HEADER_SIZE + (MaxFrames + 1) * 32)}

\* a file cannot be longer than what was written to it
TruncFilesOk == {w \in TruncFiles : w.size <= FullSize(w.page_size, Len(w.slots))}

InitTrunc == \E w \in TruncFilesOk :
                 InitIn([wal |-> w, schema |-> NoSchema, dbfile |-> NoDbFile])

NextTrunc ==
    \/ OpenWalFile(env.wal)
    \/ Close

SpecTrunc == InitTrunc /\ [][NextTrunc]_vars

----------------------------------------------------------------------------
(* Environments of the database-level specifications *)

MkWal(slots) ==
    [magic |-> WAL_MAGIC_BE, page_size |-> FramePageSize, salt1 |-> 1,
     salt2 |-> 1, slots |-> slots,
     size |-> FullSize(FramePageSize, Len(slots))]

Col(name, type, pk) == [name |-> name, type |-> type, pk |-> pk]

RowT1 ==
    [type |-> "table", name |-> "t1", tbl_name |-> "t1", rootpage |-> 2,
     cols |-> <<Col("id", "INTEGER", 1), Col("v", "TEXT", 0)>>]
RowSeq ==
    [type |-> "table", name |-> "sqlite_sequence",
     tbl_name |-> "sqlite_sequence", rootpage |-> 3,
     cols |-> <<Col("name", "", 0), Col("seq", "", 0)>>]
\* a table whose only column, the rowid alias, is called col1
RowT1Col1 ==
    [type |-> "table", name |-> "t1", tbl_name |-> "t1", rootpage |-> 2,
     cols |-> <<Col("col1", "integer", 1)>>]
RowI1 ==
    [type |-> "index", name |-> "i1", tbl_name |-> "t1", rootpage |-> 3,
     cols |-> <<>>]
\* a view: rootpage 0, not selected by WHERE rootpage > 0
RowV1 ==
    [type |-> "view", name |-> "v1", tbl_name |-> "v1", rootpage |-> 0,
     cols |-> <<>>]

MasterCell(rowid, type, name, tbl_name, rootpage, sql) ==
    Cell(rowid, <<VText(type), VText(name), VText(tbl_name), VInt(rootpage),
                  VText(sql)>>)

\* the main file: page 1 (an empty sqlite_master leaf) and one leaf page
DbFileLeaf == <<Page1Leaf(<<>>), LeafPage(<<>>)>>
\* the main file with t1 grown to an interior root 2 over leaf 3
DbFileTree == <<Page1Leaf(<<>>), InteriorPage(3, <<>>), LeafPage(<<>>)>>

----------------------------------------------------------------------------
(* Specification SpecRecover: record recovery and search over WAL frames   *)
(* of every category that hold user rows, NULL rowid aliases, undecodable  *)
(* cells, schema-shaped rows and non-leaf pages.                           *)

MaxRecFrames == 2

RecPages ==
    {<<2, LeafPage(<<Cell(1, <<VNull, VText("hello")>>)>>)>>,
     <<3, LeafPage(<<Cell(1, <<VNull, VText("hello")>>)>>)>>,
     <<2, LeafPage(<<Cell(1, <<VInt(9), VNull>>), BadCell,
                     Cell(2, <<VNull, VText("hello-edited")>>)>>)>>,
     <<2, LeafPage(<<MasterCell(1, "table", "t2", "t2", 3, SQL_T2)>>)>>,
     <<2, InteriorPage(3, <<>>)>>}

\* <<commit_size, salt1, salt2>>: uncommitted, committed, old
RecMarks == {<<0, 1, 1>>, <<3, 1, 1>>, <<0, 2, 1>>}

RecFrames ==
    {[page_num |-> pg[1], commit_size |-> mk[1], salt1 |-> mk[2],
      salt2 |-> mk[3], page |-> pg[2]] : pg \in RecPages, mk \in RecMarks}

\* the three versions of rowid 1 on page 5: uncommitted, committed, old
ScenarioFrame(mk, text) ==
    [page_num |-> 5, commit_size |-> mk[1], salt1 |-> mk[2], salt2 |-> mk[3],
     page |-> LeafPage(<<Cell(1, <<VText(text)>>)>>)]
ScenarioWal ==
    MkWal(<<ScenarioFrame(<<0, 1, 1>>, "hello"),
            ScenarioFrame(<<4096, 1, 1>>, "hello-edited"),
            ScenarioFrame(<<0, 2, 3>>, "stale")>>)

RecEnvs ==
    {[wal |-> MkWal(sl), schema |-> sc, dbfile |-> DbFileLeaf] :
        sl \in SeqsUpTo(RecFrames, MaxRecFrames),
        sc \in {<<RowT1>>, <<RowT1, RowSeq>>, <<RowT1Col1>>}}
    \cup {[wal |-> ScenarioWal, schema |-> <<RowT1>>, dbfile |-> DbFileLeaf]}

InitRecover == \E e \in RecEnvs : InitIn(e)

\* <<term, mode, limit>>
SearchInputs ==
    {<<"1", "Exact Match", 5>>, <<"hello", "Exact Match", 5>>,
     <<"Hello", "Case-Insensitive", 5>>, <<"hello", "Case-Insensitive", 1>>}

NextRecover ==
    \/ DbOpen
    \/ DbClose
    \/ BuildWalPageMap
    \/ WalTables
    \/ \E tf \in {"", "t1"}, cf \in {"", "old"} : RecoverAllRecords(tf, cf)
    \/ \E q \in SearchInputs : Search(q[1], q[2], q[3])

SpecRecover == InitRecover /\ [][NextRecover]_vars

----------------------------------------------------------------------------
(* Specification SpecMap: the page/table mapper over WAL files that hold   *)
(* schema pages, interior pages and leaves in every order.                 *)

MaxMapFrames == 4

MapFrame(page_num, page) ==
    [page_num |-> page_num, commit_size |-> 1, salt1 |-> 1, salt2 |-> 1,
     page |-> page]

MapFrames ==
    {MapFrame(1, Page1Leaf(<<MasterCell(1, "table", "t2", "t2", 4, SQL_T2)>>)),
     MapFrame(1, Page1Leaf(<<MasterCell(1, "table", "t3", "t3", 4, SQL_T3),
                             MasterCell(2, "index", "i3", "t3", 5, "")>>)),
     MapFrame(4, InteriorPage(5, <<>>)),
     MapFrame(5, InteriorPage(6, <<BadPtr, 0>>)),
     MapFrame(6, InteriorPage(7, <<>>)),
     MapFrame(4, LeafPage(<<Cell(1, <<VNull, VText("hello")>>)>>)),
     MapFrame(4, LeafPage(<<MasterCell(1, "table", "t4", "t4", 4, SQL_T4)>>)),
     MapFrame(3, InteriorPage(8, <<9>>))}

Distinct(sq) == \A i, j \in 1..Len(sq) : i # j => sq[i] # sq[j]

MapEnvs ==
    {[wal |-> MkWal(sl), schema |-> sd[1], dbfile |-> sd[2]] :
        sl \in {x \in SeqsUpTo(MapFrames, MaxMapFrames) : Distinct(x)},
        sd \in {<<<<RowT1, RowV1>>, DbFileLeaf>>,
                <<<<RowT1, RowV1, RowI1>>, DbFileTree>>}}

InitMap == \E e \in MapEnvs : InitIn(e)

NextMap ==
    \/ DbOpen
    \/ DbClose
    \/ BuildWalPageMap
    \/ WalTables
    \/ \E tf \in {"", "t2", "t3"} : RecoverAllRecords(tf, "")

SpecMap == InitMap /\ [][NextMap]_vars

----------------------------------------------------------------------------
(* Specification SpecTraverse: the main-file traversal, step by step, over *)
(* files whose interior pages point anywhere: to themselves, to each       *)
(* other, to page 1, to leaves and outside the file; and over a chain of   *)
(* interior pages deeper than the recursion limit.                         *)

TravPointers == {0, 2, 3, 5}

TravPages ==
    {LeafPage(<<>>)}
    \cup {InteriorPage(rc, <<k>>) : rc \in TravPointers, k \in TravPointers}

TravFiles ==
    {<<p1, a, b>> : p1 \in {Page1Leaf(<<>>), Page1Interior(1, <<2>>)},
                    a \in TravPages, b \in TravPages}

\* pages 2, 3, ... each the only child of the one before; page 2 also
\* points to itself and outside the file
ChainLen == 24
ChainFile ==
    [n \in 1..ChainLen |->
        IF n = 1 THEN Page1Leaf(<<>>)
        ELSE IF n = 2 THEN InteriorPage(3, <<2, 99>>)
        ELSE InteriorPage(n + 1, <<>>)]

\* roots 2 and 3 in the file; the index root 7 is outside the small files
TravSchema ==
    <<RowT1,
      [type |-> "table", name |-> "t4", tbl_name |-> "t4", rootpage |-> 3,
       cols |-> <<Col("a", "", 0), Col("b", "", 0)>>],
      [type |-> "index", name |-> "i4", tbl_name |-> "t4", rootpage |-> 7,
       cols |-> <<>>]>>

TravEnvs ==
    {[wal |-> None, schema |-> TravSchema, dbfile |-> f] :
        f \in TravFiles \cup {ChainFile}}

InitTraverse == \E e \in TravEnvs : InitIn(e)

NextTraverse == TraverseBegin \/ WalkNextRoot \/ WalkEnter \/ WalkChild

\* the traversal is one synchronous call: once entered it keeps running
SpecTraverse ==
    InitTraverse /\ [][NextTraverse]_vars /\ WF_vars(NextTraverse)

----------------------------------------------------------------------------
(* Specification SpecOpen: one parser opened again and again on two files  *)
(* (absent, too short, of invalid magic, valid with either magic and       *)
(* different page sizes), with an exception at any statement of the try    *)
(* block, and closed in between.                                           *)

OpenFrame(page_num) ==
    [page_num |-> page_num, commit_size |-> 1, salt1 |-> 1, salt2 |-> 1,
     page |-> LeafPage(<<>>)]

OpenFile(magic, ps, slots, size) ==
    [magic |-> magic, page_size |-> ps, salt1 |-> 1, salt2 |-> 1,
     slots |-> slots, size |-> size]

ShortSize == 20
OtherPageSize == 1024

OpenFiles ==
    {None,
     OpenFile(WAL_MAGIC_BE, FramePageSize, <<>>, ShortSize),
     OpenFile(0, FramePageSize, <<OpenFrame(2)>>, FullSize(FramePageSize, 1)),
     OpenFile(WAL_MAGIC_BE, FramePageSize, <<>>, WAL_HEADER_SIZE),
     OpenFile(WAL_MAGIC_BE, FramePageSize, <<OpenFrame(2)>>,
              FullSize(FramePageSize, 1)),
     OpenFile(WAL_MAGIC_LE, OtherPageSize, <<OpenFrame(3), OpenFrame(4)>>,
              FullSize(OtherPageSize, 2))}

InitOpen == \E w \in OpenFiles, o \in OpenFiles :
                InitIn([wal |-> w, other |-> o, schema |-> NoSchema,
                        dbfile |-> NoDbFile])

NextOpen ==
    \/ \E file \in {env.wal, env.other}, fault \in {"none"} \cup OpenFaults :
           OpenWalFileFault(file, fault)
    \/ Close

SpecOpen == InitOpen /\ [][NextOpen]_vars

----------------------------------------------------------------------------
(* Specification SpecQuery: a database opened over a WAL that is absent,   *)
(* of invalid magic or valid, and every query of the parser run on it.     *)

MaxQueryFrames == 2

QueryFrames ==
    {[page_num |-> 2, commit_size |-> 3, salt1 |-> 1, salt2 |-> 1,
      page |-> LeafPage(<<Cell(1, <<VNull, VText("hello")>>)>>)],
     [page_num |-> 2, commit_size |-> 0, salt1 |-> 1, salt2 |-> 1,
      page |-> LeafPage(<<Cell(1, <<VNull, VText("hello-edited")>>),
                          BadCell>>)],
     [page_num |-> 3, commit_size |-> 0, salt1 |-> 2, salt2 |-> 1,
      page |-> LeafPage(<<Cell(7, <<VText("hello")>>)>>)],
     \* a frame of page 1 whose first byte is the leaf type all the same
     [page_num |-> 1, commit_size |-> 2, salt1 |-> 1, salt2 |-> 1,
      page |-> LeafPage(<<Cell(1, <<VText("hello")>>)>>)]}

QueryMagics == {WAL_MAGIC_BE, WAL_MAGIC_LE, 0, WAL_MAGIC_LE + 1}

QueryWals ==
    {None} \cup
    {OpenFile(m, FramePageSize, s, FullSize(FramePageSize, Len(s))) :
        m \in QueryMagics, s \in SeqsUpTo(QueryFrames, MaxQueryFrames)}

\* page 3 belongs to no table, or is the root of sqlite_sequence
QuerySchemas == {<<RowT1>>, <<RowT1, RowSeq>>}

InitQuery == \E w \in QueryWals, sc \in QuerySchemas :
                 InitIn([wal |-> w, schema |-> sc, dbfile |-> DbFileLeaf])

NextQuery ==
    \/ DbOpen
    \/ DbClose
    \/ Summary
    \/ TableStats
    \/ TransactionGroups
    \/ \E i \in -1..MaxQueryFrames : GetPageData(i)
    \/ RecoverAllRecords("", "")
    \/ Search("hello", "Case-Insensitive", 5)

SpecQuery == InitQuery /\ [][NextQuery]_vars

----------------------------------------------------------------------------
(* Specification SpecBackup: DB.open step by step and DB.close, again and  *)
(* again, over a WAL that is absent, empty or non-empty, a backup that is  *)
(* absent, empty, older, as old or newer, a copy that may fail, SQLite     *)
(* checkpointing the WAL at either connect, and other writers in between.  *)

BackupWals ==
    {OpenFile(WAL_MAGIC_BE, FramePageSize, <<OpenFrame(2)>>,
              FullSize(FramePageSize, 1)),
     OpenFile(WAL_MAGIC_LE, FramePageSize, <<OpenFrame(2), OpenFrame(3)>>,
              FullSize(FramePageSize, 2))}

BackupEnvs ==
    {[wal |-> w, wal_mtime |-> 2, bak |-> b, bak_mtime |-> bt,
      schema |-> <<RowT1>>, dbfile |-> DbFileLeaf] :
        w \in BackupWals \cup {None, EmptyFile},
        b \in BackupWals \cup {None, EmptyFile},
        bt \in 1..MaxTime}

InitBackup == \E e \in BackupEnvs : InitIn(e)

NextBackup ==
    \/ \E copy_fails \in BOOLEAN : DbOpenBackup(copy_fails)
    \/ \E effect \in ConnectEffects : DbOpenConnect(effect)
    \/ \E effect \in ConnectEffects : DbOpenSearchConnect(effect)
    \/ DbOpenParser
    \/ DbClose
    \/ \E file \in BackupWals : WalWritten(file)

SpecBackup == InitBackup /\ [][NextBackup]_vars

----------------------------------------------------------------------------
(* Specification SpecCancel: the two generators run over WALs of user      *)
(* leaf frames while another thread cancels at any point.                  *)

MaxCancelFrames == 3

CancelEnvs ==
    {[wal |-> MkWal(sl), schema |-> <<RowT1>>, dbfile |-> DbFileLeaf] :
        sl \in SeqsUpTo(QueryFrames, MaxCancelFrames)}

InitCancel == \E e \in CancelEnvs : InitIn(e)

NextCancel ==
    \/ DbOpen
    \/ GenStart("recover", "", "", "", "", 0)
    \/ \E limit \in {2, 5} :
           GenStart("search", "", "", "hello", "Case-Insensitive", limit)
    \/ GenFrame
    \/ GenCell
    \/ GenYield
    \/ Cancel

SpecCancel == InitCancel /\ [][NextCancel]_vars

----------------------------------------------------------------------------
(* Specification SpecShape: recovery over leaf frames whose first cell is  *)
(* or is not shaped like a sqlite_master row in every way the test can     *)
(* tell, on a page of a known table and on an unmapped page.               *)

MaxShapeFrames == 2

ShapeCells ==
    {<<MasterCell(1, "table", "t2", "t2", 3, SQL_T2)>>,
     <<Cell(1, <<VText("index"), VText("t2"), VText("t2"), VInt(3),
                 VText(SQL_I2), VText("extra")>>)>>,
     <<MasterCell(1, "table", "t5", "t5", 3, SQL_T5)>>,
     <<Cell(1, <<VText("table"), VText("t2"), VText("t2"), VInt(3)>>)>>,
     <<MasterCell(1, "hello", "t2", "t2", 3, SQL_T2)>>,
     <<MasterCell(1, "view", "t2", "t2", 3, "hello")>>,
     <<Cell(1, <<VText("table"), VText("t2"), VText("t2"), VInt(3),
                 VInt(7)>>)>>,
     <<Cell(1, <<VNull, VText("hello")>>),
       MasterCell(2, "table", "t2", "t2", 3, SQL_T2)>>,
     <<BadCell, MasterCell(2, "trigger", "t2", "t2", 3, SQL_T2),
       Cell(3, <<VNull, VText("hello")>>)>>}

ShapeFrames ==
    {[page_num |-> pn, commit_size |-> 1, salt1 |-> 1, salt2 |-> 1,
      page |-> LeafPage(cs)] : pn \in {2, 3}, cs \in ShapeCells}

ShapeEnvs ==
    {[wal |-> MkWal(sl), schema |-> <<RowT1>>, dbfile |-> DbFileLeaf] :
        sl \in SeqsUpTo(ShapeFrames, MaxShapeFrames)}

InitShape == \E e \in ShapeEnvs : InitIn(e)

NextShape ==
    \/ DbOpen
    \/ DbClose
    \/ RecoverAllRecords("", "")

SpecShape == InitShape /\ [][NextShape]_vars

----------------------------------------------------------------------------
(* Specification SpecDiff: recovered records compared with the live rows:  *)
(* rows that are equal, edited, NULL, missing, longer than the table's     *)
(* column list, on a page no table owns, and of a table only the WAL has.  *)

MaxDiffFrames == 2

DiffFrames ==
    {MapFrame(2, LeafPage(<<Cell(1, <<VNull, VText("hello")>>)>>)),
     MapFrame(2, LeafPage(<<Cell(1, <<VNull, VText("hello-edited")>>),
                            Cell(2, <<VNull, VText("hello")>>)>>)),
     MapFrame(2, LeafPage(<<Cell(1, <<VNull, VNull>>)>>)),
     MapFrame(2, LeafPage(<<Cell(1, <<VNull, VText("hello"), VInt(7)>>)>>)),
     MapFrame(3, LeafPage(<<Cell(1, <<VText("hello")>>)>>)),
     MapFrame(1, Page1Leaf(<<MasterCell(1, "table", "t2", "t2", 4, SQL_T2)>>)),
     MapFrame(4, LeafPage(<<Cell(1, <<VNull, VText("hello")>>)>>))}

\* the live rows of t1(id INTEGER PRIMARY KEY, v TEXT)
LiveRows ==
    {{},
     {[table |-> "t1", rowid |-> 1, values |-> <<VInt(1), VText("hello")>>]},
     {[table |-> "t1", rowid |-> 1, values |-> <<VInt(1), VNull>>]}}

DiffEnvs ==
    {[wal |-> MkWal(sl), schema |-> <<RowT1>>, dbfile |-> DbFileLeaf,
      rows |-> rows] :
        sl \in SeqsUpTo(DiffFrames, MaxDiffFrames) \ {<<>>},
        rows \in LiveRows}

InitDiff == \E e \in DiffEnvs : InitIn(e)

NextDiff ==
    \/ DbOpen
    \/ DbClose
    \/ \E tf \in {"", "t1"} : LoadAllWalRecords(tf, "")

SpecDiff == InitDiff /\ [][NextDiff]_vars

----------------------------------------------------------------------------
(* _read_varint.  A Python int is unbounded and a varint carries up to 64   *)
(* bits, so the value is kept as a binary numeral: a sequence of bits, most *)
(* significant first, without a leading zero (0 is the empty numeral).      *)

RECURSIVE Bits(_, _)
\* the w low bits of the byte v, most significant first
Bits(v, w) == IF w = 0 THEN <<>> ELSE Append(Bits(v \div 2, w - 1), v % 2)

RECURSIVE Norm(_)
Norm(bits) ==
    IF bits # <<>> /\ bits[1] = 0 THEN Norm(Tail(bits)) ELSE bits

\* (result << w) | v   for 0 <= v < 2^w
ShlOr(result, w, v) == Norm(result \o Bits(v, w))

Truncated == [error |-> "Truncated varint"]

NinthByteMutLow7(result, b) == ShlOr(result, 7, b % 128)

\* the 9th byte: result = (result << 8) | b
NinthByte(result, b) == ShlOr(result, 8, b)

RECURSIVE VarintLoop(_, _, _, _)
\* for i in range(9); data[offset] of the code is data[offset + 1] here
VarintLoop(data, offset, i, result) ==
    IF i >= 9 THEN [value |-> result, offset |-> offset]
    ELSE IF offset >= Len(data) THEN Truncated
    ELSE LET b == data[offset + 1]
         IN  IF i < 8
             THEN LET r == ShlOr(result, 7, b % 128)
                  IN  IF b < 128
                      THEN [value |-> r, offset |-> offset + 1]
                      ELSE VarintLoop(data, offset + 1, i + 1, r)
             ELSE [value |-> NinthByte(result, b), offset |-> offset + 1]

_read_varint(data, offset) == VarintLoop(data, offset, 0, <<>>)

ReadVarint(offset) ==
    /\ offset \in 0..Len(env.data)
    /\ out' = [op |-> "read_varint", offset |-> offset,
               result |-> _read_varint(env.data, offset)]
    /\ UNCHANGED <<app, parserVars, mapVars, env, db, walk, gen>>

----------------------------------------------------------------------------
(* Specification SpecVarint: _read_varint on byte buffers: every short     *)
(* buffer over a few bytes, runs of continuation bytes up to and beyond    *)
(* nine, and the SQLite encodings of 0, 127, 128, 2^21-1 and 2^63-1, whole *)
(* and cut short, at offset 0 and behind other bytes.                      *)

MaxBufLen == 3
MaxRun == 10

VarintBytes == {0, 1, 127, 128, 129, 255}

Encoded ==
    {<<0>>, <<127>>, <<129, 0>>, <<255, 255, 127>>,
     <<191, 255, 255, 255, 255, 255, 255, 255, 255>>}

Around == {<<>>, <<1>>, <<128>>}

VarintBuffers ==
    SeqsUpTo(VarintBytes, MaxBufLen)
    \cup UNION {{pre \o SubSeq(e, 1, k) \o post :
                     pre \in Around, post \in Around, k \in 0..Len(e)} :
                 e \in Encoded}
    \cup {[i \in 1..k |-> c] \o t :
              k \in 0..MaxRun, c \in {128, 255},
              t \in {<<>>, <<0>>, <<127>>, <<255>>, <<128, 1>>}}

InitVarint == \E d \in VarintBuffers : InitIn([data |-> d])

NextVarint == \E offset \in 0..(MaxRun + 2) : ReadVarint(offset)

SpecVarint == InitVarint /\ [][NextVarint]_vars

----------------------------------------------------------------------------
(* Serial types and values, on bytes.  A Python int decoded from up to 8    *)
(* bytes is kept as a sign and a binary numeral; a float is kept as its 8   *)
(* IEEE-754 bytes; a str is kept as its sequence of code points.            *)

SerialSizeMutWide(st) ==
    IF st = 5 THEN 5 ELSE IF st \in 1..4 THEN st ELSE IF st \in {6, 7} THEN 8
    ELSE IF st >= 12 THEN (st - 12) \div 2 ELSE 0

_serial_type_size(st) ==
    IF st = 0 THEN 0
    ELSE IF st = 1 THEN 1
    ELSE IF st = 2 THEN 2
    ELSE IF st = 3 THEN 3
    ELSE IF st = 4 THEN 4
    ELSE IF st = 5 THEN 6
    ELSE IF st = 6 THEN 8
    ELSE IF st = 7 THEN 8
    ELSE IF st = 8 THEN 0
    ELSE IF st = 9 THEN 0
    ELSE IF st >= 12 /\ st % 2 = 0 THEN (st - 12) \div 2
    ELSE IF st >= 13 /\ st % 2 = 1 THEN (st - 13) \div 2
    ELSE 0

VLong(neg, mag) == [t |-> "int", neg |-> neg, mag |-> mag]
VFloat(chunk) == [t |-> "float", be |-> chunk]
VBytes(chunk) == [t |-> "blob", bytes |-> chunk]
VStr(cps) == [t |-> "text", cps |-> cps]

RECURSIVE BitsOf(_)
\* the bits of a run of bytes, most significant first
BitsOf(chunk) ==
    IF chunk = <<>> THEN <<>> ELSE Bits(chunk[1], 8) \o BitsOf(Tail(chunk))

Invert(bits) == [i \in 1..Len(bits) |-> 1 - bits[i]]

RECURSIVE Inc(_)
Inc(bits) ==
    IF bits = <<>> THEN <<1>>
    ELSE IF bits[Len(bits)] = 0
         THEN SubSeq(bits, 1, Len(bits) - 1) \o <<1>>
         ELSE Inc(SubSeq(bits, 1, Len(bits) - 1)) \o <<0>>

\* int.from_bytes(chunk, "big", signed=True): two's complement
FromBytesSigned(chunk) ==
    LET bits == BitsOf(chunk)
    IN  IF bits # <<>> /\ bits[1] = 1
        THEN VLong(TRUE, Norm(Inc(Invert(bits))))
        ELSE VLong(FALSE, Norm(bits))

REPLACEMENT == 65533

RECURSIVE DecodeUtf8(_)
\* bytes(chunk).decode("utf-8", errors="replace") for one- and two-byte
\* forms: a lead byte 0xC2..0xDF takes one continuation byte 0x80..0xBF; a
\* byte that starts no valid form becomes U+FFFD.  Lead bytes of three- and
\* four-byte forms (0xE0..0xF4) are not among the bytes drawn.
DecodeUtf8(chunk) ==
    IF chunk = <<>> THEN <<>>
    ELSE LET b == chunk[1]
         IN  IF b < 128 THEN <<b>> \o DecodeUtf8(Tail(chunk))
             ELSE IF /\ b \in 194..223
                     /\ Len(chunk) >= 2
                     /\ chunk[2] \in 128..191
                  THEN <<(b - 192) * 64 + (chunk[2] - 128)>>
                       \o DecodeUtf8(Tail(Tail(chunk)))
                  ELSE <<REPLACEMENT>> \o DecodeUtf8(Tail(chunk))

TruncatedValue == [error |-> "Truncated value"]

\* data[offset:offset + sz]
Slice(data, lo, hi) ==
    LET h == IF hi > Len(data) THEN Len(data) ELSE hi
    IN  IF lo >= h THEN <<>> ELSE SubSeq(data, lo + 1, h)

_read_serial_value(data, offset, serial_type) ==
    IF serial_type = 0 THEN [value |-> VNull, offset |-> offset]
    ELSE IF serial_type = 8
         THEN [value |-> VLong(FALSE, <<>>), offset |-> offset]
    ELSE IF serial_type = 9
         THEN [value |-> VLong(FALSE, <<1>>), offset |-> offset]
    ELSE LET sz == _serial_type_size(serial_type)
             chunk == Slice(data, offset, offset + sz)
         IN  IF offset + sz > Len(data) THEN TruncatedValue
             ELSE IF serial_type \in 1..6
                  THEN [value |-> FromBytesSigned(chunk),
                        offset |-> offset + sz]
             ELSE IF serial_type = 7
                  THEN [value |-> VFloat(chunk), offset |-> offset + sz]
             ELSE IF serial_type >= 12 /\ serial_type % 2 = 0
                  THEN [value |-> VBytes(chunk), offset |-> offset + sz]
             ELSE IF serial_type >= 13 /\ serial_type % 2 = 1
                  THEN [value |-> VStr(DecodeUtf8(chunk)),
                        offset |-> offset + sz]
             ELSE [value |-> VNull, offset |-> offset + sz]

SerialTypeSize(st) ==
    /\ out' = [op |-> "serial_type_size", st |-> st,
               size |-> _serial_type_size(st)]
    /\ UNCHANGED <<app, parserVars, mapVars, env, db, walk, gen>>

ReadSerialValue(offset, serial_type) ==
    /\ offset \in 0..Len(env.data)
    /\ out' = [op |-> "read_serial_value", offset |-> offset,
               st |-> serial_type,
               result |-> _read_serial_value(env.data, offset, serial_type)]
    /\ UNCHANGED <<app, parserVars, mapVars, env, db, walk, gen>>

----------------------------------------------------------------------------
(* Specification SpecSerial: _serial_type_size and _read_serial_value on   *)
(* every serial type up to MaxSerialType and on short buffers, with        *)
(* buffers long enough for the 6- and 8-byte integers and the float.       *)

MaxSerialType == 23
MaxSerialLen == 3

SerialBytes == {0, 65, 128, 255}

LongBuffers ==
    {<<128, 0, 0, 0, 0, 0, 0, 0>>,
     <<255, 255, 255, 255, 255, 255, 255, 255, 65>>,
     <<127, 255, 255, 255, 255, 255, 255, 255>>,
     <<63, 240, 0, 0, 0, 0, 0, 0>>,
     <<1, 128, 0, 0, 0, 0, 1>>,
     <<195, 169, 65, 195, 65, 200>>}

SerialBuffers == SeqsUpTo(SerialBytes, MaxSerialLen) \cup LongBuffers

InitSerial == \E d \in SerialBuffers : InitIn([data |-> d])

NextSerial ==
    \/ \E st \in 0..MaxSerialType : SerialTypeSize(st)
    \/ \E offset \in 0..MaxSerialLen, st \in 0..MaxSerialType :
           ReadSerialValue(offset, st)

SpecSerial == InitSerial /\ [][NextSerial]_vars

----------------------------------------------------------------------------
(* _parse_record, on bytes.                                                *)

RECURSIVE ToInt(_)
\* the integer a numeral stands for
ToInt(bits) ==
    IF bits = <<>> THEN 0
    ELSE 2 * ToInt(SubSeq(bits, 1, Len(bits) - 1)) + bits[Len(bits)]

HUGE == 1073741824

\* a decoded varint used as a length or a serial type.  A value of 2^30 or
\* more stands for a length beyond every buffer: it is held at 2^30, an
\* even serial type whose size, like the sizes above it, no buffer holds.
AsInt(bits) == IF Len(bits) > 30 THEN HUGE ELSE ToInt(bits)

RECURSIVE ReadSerialTypes(_, _, _, _)
\* while offset < header_end: st, offset = _read_varint(data, offset)
ReadSerialTypes(data, offset, header_end, serial_types) ==
    IF offset < header_end
    THEN LET r == _read_varint(data, offset)
         IN  IF r = Truncated THEN Truncated
             ELSE ReadSerialTypes(data, r.offset, header_end,
                                  Append(serial_types, AsInt(r.value)))
    ELSE [serial_types |-> serial_types]

RECURSIVE ReadValues(_, _, _, _)
\* for st in serial_types: val, offset = _read_serial_value(data, offset, st)
\* an exception raised by _read_serial_value leaves _parse_record
ReadValues(data, offset, serial_types, values) ==
    IF serial_types = <<>> THEN [values |-> values]
    ELSE LET r == _read_serial_value(data, offset, Head(serial_types))
         IN  IF r = TruncatedValue THEN TruncatedValue
             ELSE ReadValues(data, r.offset, Tail(serial_types),
                             Append(values, r.value))

_parse_record(data, offset) ==
    LET h == _read_varint(data, offset)
    IN  IF h = Truncated THEN Truncated
        ELSE LET header_end == offset + AsInt(h.value)
                 t == ReadSerialTypes(data, h.offset, header_end, <<>>)
             IN  IF t = Truncated THEN Truncated
                 ELSE ReadValues(data, header_end, t.serial_types, <<>>)

ParseRecord(offset) ==
    /\ offset \in 0..Len(env.data)
    /\ out' = [op |-> "parse_record", offset |-> offset,
               result |-> _parse_record(env.data, offset)]
    /\ UNCHANGED <<app, parserVars, mapVars, env, db, walk, gen>>

----------------------------------------------------------------------------
(* Specification SpecRecord: _parse_record on whole records of every value *)
(* kind, on each of them cut short at every byte, at offset 0 and behind   *)
(* another byte, and on every short buffer over a few bytes.               *)

MaxRecordLen == 3

RecordBytes == {0, 1, 2, 9, 128}

Records ==
    {<<2, 0>>,
     <<3, 1, 9, 5>>,
     <<4, 8, 2, 15, 255, 254, 65>>,
     <<3, 14, 13, 7>>,
     <<2, 6, 128, 0, 0, 0, 0, 0, 0, 0>>,
     <<2, 10>>,
     <<1>>,
     <<0>>,
     <<2, 128, 1, 65>>,
     <<3, 7, 0, 63, 240, 0, 0, 0, 0, 0, 0>>,
     <<3, 1, 1, 5, 6>>,
     <<255, 255, 255, 255, 255, 255, 255, 255, 255, 0>>,
     <<10, 255, 255, 255, 255, 255, 255, 255, 255, 255, 65>>}

RecordBuffers ==
    SeqsUpTo(RecordBytes, MaxRecordLen)
    \cup UNION {{pre \o SubSeq(r, 1, k) :
                     pre \in {<<>>, <<7>>}, k \in 0..Len(r)} :
                 r \in Records}

InitRecord == \E d \in RecordBuffers : InitIn([data |-> d])

NextRecord == \E offset \in 0..MaxRecordLen : ParseRecord(offset)

SpecRecord == InitRecord /\ [][NextRecord]_vars

----------------------------------------------------------------------------
(* parse_btree_page and parse_leaf_cells, on the bytes of a page.          *)

PAGE_TYPES == {INDEX_INTERIOR, TABLE_INTERIOR, INDEX_LEAF, TABLE_LEAF, 0}

RECURSIVE FromBytesBig(_)
\* int.from_bytes(chunk, "big")
FromBytesBig(chunk) ==
    IF chunk = <<>> THEN 0
    ELSE 256 * FromBytesBig(SubSeq(chunk, 1, Len(chunk) - 1))
         + chunk[Len(chunk)]

RECURSIVE CellOffsetsLoop(_, _, _, _, _)
\* for i in range(cell_count): ... if po + 2 > len(page_data): break
CellOffsetsLoop(page_data, ptr_start, cell_count, i, cell_offsets) ==
    IF i >= cell_count THEN cell_offsets
    ELSE LET po == ptr_start + i * 2
         IN  IF po + 2 > Len(page_data) THEN cell_offsets
             ELSE CellOffsetsLoop(page_data, ptr_start, cell_count, i + 1,
                      Append(cell_offsets,
                             FromBytesBig(Slice(page_data, po, po + 2))))

parse_btree_page(page_data) ==
    IF Len(page_data) < 8 THEN None
    ELSE LET pt == page_data[1]
             is_interior == pt \in {INDEX_INTERIOR, TABLE_INTERIOR}
             hdr_size == IF is_interior THEN 12 ELSE 8
             cell_count == FromBytesBig(Slice(page_data, 3, 5))
         IN  IF pt \notin PAGE_TYPES \/ pt = 0 THEN None
             ELSE IF Len(page_data) < hdr_size THEN None
             ELSE [page_type_byte |-> pt,
                   first_free |-> FromBytesBig(Slice(page_data, 1, 3)),
                   cell_count |-> cell_count,
                   cell_content_start |->
                       FromBytesBig(Slice(page_data, 5, 7)),
                   frag_count |-> page_data[8],
                   right_child |->
                       IF is_interior
                       THEN FromBytesBig(Slice(page_data, 8, 12))
                       ELSE -1,
                   cell_offsets |->
                       CellOffsetsLoop(page_data, hdr_size, cell_count, 0,
                                       <<>>)]

SkipCell == [skip |-> TRUE]

\* the body of the try block for one cell pointer: the cell, or SkipCell
\* for `continue` and for any exception
CellAtOffset(page_data, cell_offset) ==
    IF cell_offset >= Len(page_data) THEN SkipCell
    ELSE LET pl == _read_varint(page_data, cell_offset)
         IN  IF pl = Truncated THEN SkipCell
             ELSE LET rid == _read_varint(page_data, pl.offset)
                  IN  IF rid = Truncated THEN SkipCell
                      ELSE LET payload_start == rid.offset
                               full_end == payload_start + AsInt(pl.value)
                               payload_end ==
                                   IF full_end < Len(page_data)
                                   THEN full_end ELSE Len(page_data)
                               rec == _parse_record(
                                   Slice(page_data, payload_start,
                                         payload_end), 0)
                           IN  IF payload_end <= payload_start
                               THEN SkipCell
                               ELSE IF "values" \in DOMAIN rec
                               THEN [rowid |-> rid.value,
                                     values |-> rec.values]
                               ELSE SkipCell

SkipContinuesMutBreak == FALSE

\* a skipped cell is left by `continue`, the loop goes on
SkipContinues == TRUE

RECURSIVE LeafCellsLoop(_, _, _, _)
LeafCellsLoop(page_data, cell_offsets, i, cells) ==
    IF i > Len(cell_offsets) THEN cells
    ELSE LET c == CellAtOffset(page_data, cell_offsets[i])
         IN  IF c = SkipCell
             THEN IF SkipContinues
                  THEN LeafCellsLoop(page_data, cell_offsets, i + 1, cells)
                  ELSE cells
             ELSE LeafCellsLoop(page_data, cell_offsets, i + 1,
                                Append(cells, c))

\* WALParser.parse_leaf_cells on the bytes of a page
parse_leaf_cells_bytes(page_data) ==
    IF Len(page_data) < 8 THEN <<>>
    ELSE IF page_data[1] # TABLE_LEAF THEN <<>>
    ELSE LET info == parse_btree_page(page_data)
         IN  IF info = None THEN <<>>
             ELSE LeafCellsLoop(page_data, info.cell_offsets, 1, <<>>)

ParseLeafCells ==
    /\ out' = [op |-> "parse_leaf_cells",
               result |-> parse_leaf_cells_bytes(env.data)]
    /\ UNCHANGED <<app, parserVars, mapVars, env, db, walk, gen>>

ParseBtreePage ==
    /\ out' = [op |-> "parse_btree_page",
               result |-> parse_btree_page(env.data)]
    /\ UNCHANGED <<app, parserVars, mapVars, env, db, walk, gen>>

----------------------------------------------------------------------------
(* Specification SpecCells: parse_leaf_cells on table-leaf pages holding   *)
(* up to MaxPtrs cell pointers, with a declared cell count equal to, above *)
(* and below the pointers present, pointers to whole cells, into cells,    *)
(* at the header, at the last byte and past the page end, cells that       *)
(* decode, that are cut short, that declare an empty or an overflowing     *)
(* payload; and on pages of other types and buffers too short for a page.  *)

MaxPtrs == 2

PageCells ==
    {<<2, 1, 2, 0>>,
     <<4, 2, 3, 1, 9, 5>>,
     <<4, 3, 3, 1, 1, 5>>,
     <<0, 4>>,
     <<40, 5, 2, 0>>,
     <<129>>}

PageContents == SeqsUpTo(PageCells, 2) \ {<<>>}

RECURSIVE Flatten(_)
Flatten(ss) == IF ss = <<>> THEN <<>> ELSE Head(ss) \o Flatten(Tail(ss))

BE16(n) == <<n \div 256, n % 256>>

\* header, pointer array, cell content
BytePage(pt, cell_count, ptrs, content) ==
    <<pt, 0, 0>> \o BE16(cell_count) \o BE16(8 + 2 * Len(ptrs)) \o <<0>>
    \o Flatten([i \in 1..Len(ptrs) |-> BE16(ptrs[i])])
    \o Flatten(content)

\* where a pointer may point, for n pointers over the content
PtrTargets(n, content) ==
    LET base == 8 + 2 * n
        total == base + Len(Flatten(content))
    IN  {0, base, base + 1, base + Len(content[1]), total - 1, total}

LeafPages ==
    UNION {UNION {{BytePage(TABLE_LEAF, cc, ptrs, content) :
                       cc \in {0, n, n + 2},
                       ptrs \in [1..n -> PtrTargets(n, content)]} :
                   n \in 0..MaxPtrs} :
           content \in PageContents}

OtherPages ==
    {BytePage(pt, 1, <<10>>, <<<<2, 1, 2, 0>>>>) :
         pt \in {TABLE_INTERIOR, INDEX_LEAF, 0, 7}}
    \cup {<<>>, <<TABLE_LEAF>>, <<TABLE_LEAF, 0, 0, 0, 1, 0, 8>>,
          <<TABLE_LEAF, 0, 0, 0, 1, 0, 8, 0>>,
          <<TABLE_INTERIOR, 0, 0, 0, 0, 0, 12, 0, 0, 0>>,
          <<TABLE_INTERIOR, 0, 0, 0, 1, 0, 14, 0, 0, 0, 0, 3, 0, 14,
            0, 0, 0, 2, 1>>}

InitCells == \E d \in LeafPages \cup OtherPages : InitIn([data |-> d])

NextCells == ParseLeafCells \/ ParseBtreePage

SpecCells == InitCells /\ [][NextCells]_vars

----------------------------------------------------------------------------
(* DB.wal_browse *)

RECURSIVE InsertByRowid(_, _)
\* r goes behind every record whose rowid is not larger (list.sort is stable)
InsertByRowid(sorted, r) ==
    IF sorted = <<>> THEN <<r>>
    ELSE IF sorted[Len(sorted)].rowid <= r.rowid THEN Append(sorted, r)
    ELSE Append(InsertByRowid(SubSeq(sorted, 1, Len(sorted) - 1), r),
                sorted[Len(sorted)])

RECURSIVE SortByRowid(_)
\* all_recs.sort(key=lambda r: r["rowid"])
SortByRowid(recs) ==
    IF recs = <<>> THEN <<>>
    ELSE InsertByRowid(SortByRowid(SubSeq(recs, 1, Len(recs) - 1)),
                       recs[Len(recs)])

RECURSIVE FirstSet(_)
\* the keys of a dict in the order they were first set
FirstSet(names) ==
    IF names = <<>> THEN <<>>
    ELSE LET before == FirstSet(SubSeq(names, 1, Len(names) - 1))
             last == names[Len(names)]
         IN  IF \E i \in 1..Len(before) : before[i] = last THEN before
             ELSE Append(before, last)

\* list(rec["values_dict"].keys()): the name each value was stored under,
\* the column name of the record's table or the fallback colN
KeysOf(rec, m) ==
    LET col_names == DictGet(m.col_map, rec.table, <<>>)
    IN  FirstSet([i \in 1..Len(rec.raw_values) |-> ColName(col_names, i - 1)])

\* status_map.get(rec["category"], rec["category"])
StatusLabel(category) ==
    CASE category = "committed" -> "Saved"
      [] category = "uncommitted" -> "Unsaved"
      [] category = "old" -> "Overwritten"
      [] OTHER -> category

BrowseRow(rec, col_names) ==
    <<rec.rowid>>
    \o [i \in 1..Len(col_names) |-> DictGet(rec.values_dict, col_names[i], "")]
    \o <<rec.frame_idx, rec.page_num, StatusLabel(rec.category)>>

wal_browse(p, m, table_name, limit, offset) ==
    IF ~p.valid THEN [cols |-> <<>>, rows |-> <<>>, total |-> 0]
    ELSE LET all_recs == SortByRowid(
                 recover_all_records(p, m, table_name, "", FALSE))
             page == Slice(all_recs, offset, offset + limit)
             known == DictGet(m.col_map, table_name, <<>>)
             col_names == IF known = <<>> /\ page # <<>>
                          THEN KeysOf(page[1], m) ELSE known
         IN  [cols |-> <<"_rid">> \o col_names
                       \o <<"_wal_frame", "_wal_page", "_wal_status">>,
              rows |-> [i \in 1..Len(page) |-> BrowseRow(page[i], col_names)],
              total |-> Len(all_recs)]

WalBrowseMutCaches(table_name, limit, offset) ==
    LET r == wal_browse(Parser, Maps, table_name, limit, offset)
    IN  /\ out' = [op |-> "wal_browse", table_name |-> table_name,
                   limit |-> limit, offset |-> offset, result |-> r]
        /\ col_map' = DictPut(col_map, table_name,
                              SubSeq(r.cols, 2, Len(r.cols) - 3))
        /\ UNCHANGED <<app, parserVars, page_map, pk_col_idx, env, db, walk, gen>>

\* DB.wal_browse(table_name, limit, offset)
WalBrowse(table_name, limit, offset) ==
    /\ out' = [op |-> "wal_browse", table_name |-> table_name,
               limit |-> limit, offset |-> offset,
               result |-> wal_browse(Parser, Maps, table_name, limit, offset)]
    /\ UNCHANGED <<app, parserVars, mapVars, env, db, walk, gen>>

\* another process puts a different WAL in place of the one that was opened
WalReplaced ==
    /\ env.wal # env.later
    /\ env' = [env EXCEPT !.wal = env.later, !.later = env.wal]
    /\ out' = [op |-> "wal_replaced"]
    /\ UNCHANGED <<app, parserVars, mapVars, db, walk, gen>>

----------------------------------------------------------------------------
(* Specification SpecFrozen: a database opened, queried with every query   *)
(* operation, closed and opened again, while the WAL on disk is replaced   *)
(* by one that maps other pages and tables.                                *)

MaxFrozenFrames == 2

FrozenFrames ==
    {MapFrame(2, LeafPage(<<Cell(2, <<VNull, VText("hello")>>),
                            Cell(1, <<VNull, VText("hello-edited")>>)>>)),
     MapFrame(1, Page1Leaf(<<MasterCell(1, "table", "t2", "t2", 4, SQL_T2)>>)),
     MapFrame(4, LeafPage(<<Cell(1, <<VNull, VText("hello")>>)>>)),
     [page_num |-> 3, commit_size |-> 0, salt1 |-> 1, salt2 |-> 2,
      page |-> LeafPage(<<Cell(5, <<VText("hello"), VNull>>)>>)]}

FrozenWals ==
    {None} \cup {MkWal(sl) : sl \in SeqsUpTo(FrozenFrames, MaxFrozenFrames)}

\* the WAL put in place later: none, or one that brings table t2 on page 4
LaterWals ==
    {None,
     MkWal(<<MapFrame(1, Page1Leaf(<<MasterCell(1, "table", "t2", "t2", 4,
                                                SQL_T2)>>)),
             MapFrame(4, LeafPage(<<Cell(1, <<VNull, VText("hello")>>)>>))>>)}

InitFrozen == \E w \in FrozenWals, l \in LaterWals :
                  InitIn([wal |-> w, later |-> l, schema |-> <<RowT1>>,
                          dbfile |-> DbFileLeaf])

NextFrozen ==
    \/ DbOpen
    \/ DbClose
    \/ WalReplaced
    \/ Summary
    \/ TableStats
    \/ TransactionGroups
    \/ \E i \in 0..1 : GetPageData(i)
    \/ WalTables
    \/ \E tf \in {"", "t2"} : RecoverAllRecords(tf, "")
    \/ Search("hello", "Case-Insensitive", 5)
    \/ \E t \in {"", "t1", "t2", "page_3"}, limit \in {1, 200},
          offset \in {0, 1} :
           WalBrowse(t, limit, offset)

SpecFrozen == InitFrozen /\ [][NextFrozen]_vars

----------------------------------------------------------------------------
(* Specification SpecGroups: transaction_groups over WALs of up to         *)
(* MaxGroupFrames frames, each frame with or without a commit marker and   *)
(* with the header's salts or with one salt differing.                     *)

MaxGroupFrames == 4

GroupFrames ==
    {[page_num |-> 2, commit_size |-> c, salt1 |-> s[1], salt2 |-> s[2],
      page |-> FreePage] :
        c \in {0, 3}, s \in {<<1, 1>>, <<2, 1>>, <<1, 2>>}}

GroupWals == {MkWal(s) : s \in SeqsUpTo(GroupFrames, MaxGroupFrames)}

InitGroups == \E w \in GroupWals :
                  InitIn([wal |-> w, schema |-> NoSchema, dbfile |-> NoDbFile])

NextGroups ==
    \/ OpenWalFile(env.wal)
    \/ Close
    \/ TransactionGroups

SpecGroups == InitGroups /\ [][NextGroups]_vars

----------------------------------------------------------------------------
(* Specification SpecScan: the page-1 scan over WALs whose sqlite_master   *)
(* cells name a table of the live schema with another CREATE TABLE text,   *)
(* name a new table twice with different texts, carry no text or a text    *)
(* without a column list, in every order, in one page-1 frame or two.      *)

MaxScanCells == 3

ScanMasterCells ==
    {MasterCell(1, "table", "t1", "t1", 2, SQL_T1B),
     MasterCell(2, "table", "t2", "t2", 4, SQL_T2),
     MasterCell(3, "table", "t2", "t2", 4, SQL_T2B),
     MasterCell(4, "table", "t2", "t2", 4, ""),
     MasterCell(5, "table", "t2", "t2", 4, SQL_I2),
     MasterCell(6, "index", "i2", "t2", 5, SQL_I2)}

\* the cells in one page-1 frame, or the first cell in a frame of its own
\* and the others in a later one
ScanWals ==
    UNION {{MkWal(<<MapFrame(1, Page1Leaf(cs))>>)}
           \cup (IF Len(cs) < 2 THEN {}
                 ELSE {MkWal(<<MapFrame(1, Page1Leaf(SubSeq(cs, 1, 1))),
                               MapFrame(1, Page1Leaf(Tail(cs)))>>)}) :
           cs \in SeqsUpTo(ScanMasterCells, MaxScanCells)}

\* t1 with columns id, v and no INTEGER PRIMARY KEY
RowT1NoPk ==
    [RowT1 EXCEPT !.cols = <<Col("id", "TEXT", 0), Col("v", "TEXT", 0)>>]

InitScan ==
    \E w \in ScanWals, row \in {RowT1, RowT1NoPk} :
        InitIn([wal |-> w, schema |-> <<row>>, dbfile |-> DbFileLeaf])

NextScan ==
    \/ DbOpen
    \/ DbClose
    \/ BuildWalPageMap

SpecScan == InitScan /\ [][NextScan]_vars

----------------------------------------------------------------------------
(* Specification SpecLimit: WALParser.search, as one call and as a         *)
(* generator resumed step by step, with every limit from 0 up and an empty *)
(* or a matching term, over leaf frames that hold a row with two matching  *)
(* values, two rows with one each, and a row with none.                    *)

MaxLimitFrames == 2
MaxLimit == 3

LimitFrames ==
    {[page_num |-> 3, commit_size |-> 1, salt1 |-> 1, salt2 |-> 1,
      page |-> LeafPage(<<Cell(1, <<VText("hello"),
                                    VText("hello-edited")>>)>>)],
     [page_num |-> 3, commit_size |-> 0, salt1 |-> 1, salt2 |-> 1,
      page |-> LeafPage(<<Cell(1, <<VText("hello")>>),
                          Cell(2, <<VText("Hello")>>)>>)],
     [page_num |-> 2, commit_size |-> 1, salt1 |-> 1, salt2 |-> 1,
      page |-> LeafPage(<<Cell(1, <<VNull, VText("other")>>)>>)]}

InitLimit ==
    \E sl \in SeqsUpTo(LimitFrames, MaxLimitFrames) :
        InitIn([wal |-> MkWal(sl), schema |-> <<RowT1>>, dbfile |-> DbFileLeaf])

NextLimit ==
    \/ DbOpen
    \/ \E term \in {"", "hello"}, limit \in 0..MaxLimit :
           Search(term, "Case-Insensitive", limit)
    \/ \E term \in {"", "hello"}, limit \in 0..MaxLimit :
           GenStart("search", "", "", term, "Case-Insensitive", limit)
    \/ GenFrame
    \/ GenCell
    \/ GenYield

SpecLimit == InitLimit /\ [][NextLimit]_vars

----------------------------------------------------------------------------
(* Specification SpecSearchUI: the user searches, stops and searches again *)
(* while the workers of earlier searches run at their own pace.            *)

InitSearchUI ==
    InitIn([wal |-> None, schema |-> NoSchema, dbfile |-> NoDbFile])

NextSearchUI ==
    \/ DbOpen
    \/ StopSearch
    \/ \E term \in {"", "hello"} : DoSearch(term)
    \/ \E timed_out \in BOOLEAN : DoSearchJoin(timed_out)
    \/ DoSearchResetCancel
    \/ DoSearchResetResults
    \/ \E todo \in 0..MaxTodo : DoSearchStart(todo)
    \/ \E t \in 1..MaxSearches : WorkerPoll(t)
    \/ \E t \in 1..MaxSearches : WorkerAppend(t)

SpecSearchUI == InitSearchUI /\ [][NextSearchUI]_vars

----------------------------------------------------------------------------
(* C1: every frame produced by _parse_frames has exactly one category:     *)
(* committed iff both salts equal the header's and commit_size > 0,        *)
(* uncommitted iff both salts equal the header's and commit_size = 0,      *)
(* old iff at least one salt differs, whatever commit_size is.             *)
C1_FrameCategory ==
    _valid =>
        \A i \in 1..Len(frames) :
            LET fr == frames[i]
                both == fr.salt1 = header.salt1 /\ fr.salt2 = header.salt2
            IN  /\ fr.category \in {"committed", "uncommitted", "old"}
                /\ (fr.category = "committed") <=> (both /\ fr.commit_size > 0)
                /\ (fr.category = "uncommitted") <=> (both /\ fr.commit_size = 0)
                /\ (fr.category = "old") <=> ~both

\* a parsed WAL holding an old frame with exactly one salt differing and a
\* commit marker, next to a committed frame
C1_Witness ==
    /\ _valid
    /\ \E i, j \in 1..Len(frames) :
          /\ frames[i].category = "old"
          /\ frames[i].commit_size > 0
          /\ (frames[i].salt1 = header.salt1) # (frames[i].salt2 = header.salt2)
          /\ frames[j].category = "committed"

(* C2: a WAL of length L with a valid header and page size P, cut at any   *)
(* byte offset, is parsed without failure into exactly the frames wholly   *)
(* inside the file: frame i has index i and offset 32 + i*(24+P), every    *)
(* frame satisfies offset + 24 + P <= L, and there are                     *)
(* floor((L-32)/(24+P)) of them.                                           *)
C2_TruncatedFrames ==
    (/\ out.op = "open"
     /\ out.arg # None
     /\ out.arg.size >= WAL_HEADER_SIZE
     /\ out.arg.magic \in {WAL_MAGIC_BE, WAL_MAGIC_LE})
    => LET L == out.arg.size
           P == out.arg.page_size
       IN  /\ _valid
           /\ Len(frames) = (L - 32) \div (24 + P)
           /\ \A i \in 1..Len(frames) :
                 /\ frames[i].index = i - 1
                 /\ frames[i].offset = 32 + (i - 1) * (24 + P)
                 /\ frames[i].offset + 24 + P <= L
                 /\ frames[i].page_num = out.arg.slots[i].page_num

\* a file cut inside the page data of its second frame: one frame returned
C2_Witness ==
    /\ out.op = "open"
    /\ out.arg # None
    /\ Len(out.arg.slots) >= 2
    /\ out.arg.size > FullSize(out.arg.page_size, 1) + WAL_FRAME_HEADER_SIZE
    /\ out.arg.size < FullSize(out.arg.page_size, 2)
    /\ Len(frames) = 1

(* C4: for a valid WAL, summary() reports total_frames = number of parsed  *)
(* frames, committed / uncommitted / old = number of frames of each        *)
(* category (so they add up to total_frames), and unique_pages = number of *)
(* distinct page numbers among the frames.                                 *)
CountCat(c) == Cardinality({i \in 1..Len(frames) : frames[i].category = c})

C4_SummaryCounts ==
    (out.op = "summary" /\ _valid) =>
        /\ ~out.empty
        /\ out.total_frames = Len(frames)
        /\ out.committed = CountCat("committed")
        /\ out.uncommitted = CountCat("uncommitted")
        /\ out.old = CountCat("old")
        /\ out.total_frames = out.committed + out.uncommitted + out.old
        /\ out.unique_pages =
              Cardinality({frames[i].page_num : i \in 1..Len(frames)})

\* a summary of two frames of the same page, one uncommitted and one old
C4_Witness ==
    /\ out.op = "summary"
    /\ _valid
    /\ out.total_frames = 2
    /\ out.uncommitted = 1
    /\ out.old = 1
    /\ out.unique_pages = 1

----------------------------------------------------------------------------
(* Recovered records against the WAL file itself *)

\* what a record says about where it came from and what it holds
RecKey(r) ==
    [frame_idx |-> r.frame_idx, page_num |-> r.page_num,
     category |-> r.category, rowid |-> r.rowid, raw_values |-> r.raw_values]

RecKeys(records) == [k \in 1..Len(records) |-> RecKey(records[k])]

\* the cells of slot k of the WAL file that decode, as record keys
RECURSIVE SlotKeys(_, _)
SlotKeys(k, j) ==
    LET cells == env.wal.slots[k].page.cells
    IN  IF j > Len(cells) THEN <<>>
        ELSE IF cells[j].ok
        THEN <<[frame_idx |-> k - 1, page_num |-> frames[k].page_num,
                category |-> frames[k].category, rowid |-> cells[j].rowid,
                raw_values |-> cells[j].values]>> \o SlotKeys(k, j + 1)
        ELSE SlotKeys(k, j + 1)

\* slot k holds a table-leaf page that is not page 1 and not a system table's
UserLeaf(k) ==
    /\ env.wal.slots[k].page.b0 = 13
    /\ frames[k].page_num # 1
    /\ TableOf(page_map, frames[k].page_num)
           \notin {"sqlite_master", "sqlite_sequence"}

\* the first decoded cell of slot k looks like a sqlite_master row
SchemaShaped(k) ==
    LET keys == SlotKeys(k, 1)
    IN  /\ keys # <<>>
        /\ Len(keys[1].raw_values) >= 5
        /\ keys[1].raw_values[1] \in {VText("table"), VText("index"),
                                      VText("view"), VText("trigger")}
        /\ keys[1].raw_values[5] \in {VText(SQL_T2), VText(SQL_T3),
                                      VText(SQL_T4), VText(SQL_I2)}

\* the keys of the cells of the user-leaf slots from k on, in order; with
\* skip_shaped the schema-shaped slots are left out
RECURSIVE KeysFrom(_, _)
KeysFrom(k, skip_shaped) ==
    IF k > Len(frames) THEN <<>>
    ELSE IF UserLeaf(k) /\ ~(skip_shaped /\ SchemaShaped(k))
    THEN SlotKeys(k, 1) \o KeysFrom(k + 1, skip_shaped)
    ELSE KeysFrom(k + 1, skip_shaped)

UnfilteredRecover ==
    /\ out.op = "recover"
    /\ out.table_filter = ""
    /\ out.category_filter = ""
    /\ _valid

ScenarioKeys ==
    <<[frame_idx |-> 0, page_num |-> 5, category |-> "uncommitted",
       rowid |-> 1, raw_values |-> <<VText("hello")>>],
      [frame_idx |-> 1, page_num |-> 5, category |-> "committed",
       rowid |-> 1, raw_values |-> <<VText("hello-edited")>>],
      [frame_idx |-> 2, page_num |-> 5, category |-> "old",
       rowid |-> 1, raw_values |-> <<VText("stale")>>]>>

PromisedValue(table, rowid, raw_values, vi) ==
    LET v == raw_values[vi + 1]
    IN  IF vi = DictGet(pk_col_idx, table, -1) /\ v = VNull
        THEN ToString(rowid)
        ELSE IF v = VNull THEN "NULL"
        ELSE IF v.t = "int" THEN ToString(v.i)
        ELSE v.s

ColumnOf(table, vi) == ColName(DictGet(col_map, table, <<>>), vi)

(* C5: in recover_all_records and in search, a cell whose payload is NULL  *)
(* at the table's INTEGER PRIMARY KEY index yields a record whose value    *)
(* for that column is the rowid; a stored value at that index, and NULL at *)
(* any other index, are not replaced by the rowid.                         *)
C5_PkSubstitution ==
    /\ out.op = "recover" =>
          \A k \in 1..Len(out.records) :
             LET r == out.records[k]
             IN  \A vi \in 0..(Len(r.raw_values) - 1) :
                    r.values_dict[ColumnOf(r.table, vi)]
                        = PromisedValue(r.table, r.rowid, r.raw_values, vi)
    /\ out.op = "search" =>
          \A k \in 1..Len(out.hits) :
             LET h == out.hits[k]
                 keys == SlotKeys(h.frame_idx + 1, 1)
             IN  \E c \in 1..Len(keys) :
                    /\ keys[c].rowid = h.rowid
                    /\ \A vi \in 0..(Len(keys[c].raw_values) - 1) :
                          h.row_data[ColumnOf(h.table, vi)]
                              = PromisedValue(h.table, h.rowid,
                                              keys[c].raw_values, vi)

----------------------------------------------------------------------------
(* Tables that exist only in the WAL *)

\* the page map has been built for the open database
Built == db.conn /\ _valid

\* the table rows held by the sqlite_master leaf cells of the page-1 frames:
\* <<name, rootpage>> of every cell of type 'table' with rootpage > 0 and a
\* CREATE TABLE text
WalTableRows ==
    {<<c.values[2].s, c.values[4].i>> :
        c \in {x \in UNION {{env.wal.slots[k].page.cells[j] :
                               j \in 1..Len(env.wal.slots[k].page.cells)} :
                            k \in {y \in 1..Len(frames) :
                                     /\ frames[y].page_num = 1
                                     /\ env.wal.slots[y].page.off = 100
                                     /\ env.wal.slots[y].page.ptype = 13}} :
                 /\ x.ok
                 /\ Len(x.values) = 5
                 /\ x.values[1] = VText("table")
                 /\ x.values[2].t = "text"
                 /\ x.values[4].t = "int"
                 /\ x.values[4].i > 0
                 /\ x.values[5] \in {VText(SQL_T2), VText(SQL_T3),
                                     VText(SQL_T4)}}}

LiveTables ==
    {env.schema[i].name :
        i \in {k \in 1..Len(env.schema) : env.schema[k].type = "table"}}

\* the rows of tables that are neither system tables nor in the live schema
WalOnlyRows ==
    {nr \in WalTableRows :
        /\ nr[1] \notin {"sqlite_master", "sqlite_sequence"}
        /\ nr[1] \notin LiveTables}

\* the keys of the cells of the table-leaf frames of page pg from slot k on;
\* with skip_shaped the schema-shaped frames are left out
RECURSIVE LeafKeysOf(_, _, _)
LeafKeysOf(pg, k, skip_shaped) ==
    IF k > Len(frames) THEN <<>>
    ELSE IF /\ frames[k].page_num = pg
            /\ env.wal.slots[k].page.b0 = 13
            /\ ~(skip_shaped /\ SchemaShaped(k))
    THEN SlotKeys(k, 1) \o LeafKeysOf(pg, k + 1, skip_shaped)
    ELSE LeafKeysOf(pg, k + 1, skip_shaped)

\* the keys of the records that came from page pg
RECURSIVE KeysOfPage(_, _, _)
KeysOfPage(records, pg, k) ==
    IF k > Len(records) THEN <<>>
    ELSE IF records[k].page_num = pg
    THEN <<RecKey(records[k])>> \o KeysOfPage(records, pg, k + 1)
    ELSE KeysOfPage(records, pg, k + 1)

----------------------------------------------------------------------------
(* Child pointers of the interior pages in the WAL *)

\* the child page numbers (> 0) slot k names, when it holds an interior page
SlotChildren(k) ==
    LET page == env.wal.slots[k].page
    IN  IF page.b0 \in {2, 5}
        THEN {c \in {page.rc} \cup {page.cells[j] : j \in 1..Len(page.cells)} :
                 c > 0}
        ELSE {}

\* the latest slot of page pg, 0 when the WAL has none
LatestSlot(pg) ==
    IF \E k \in 1..Len(frames) : frames[k].page_num = pg
    THEN CHOOSE k \in 1..Len(frames) :
             /\ frames[k].page_num = pg
             /\ \A j \in (k + 1)..Len(frames) : frames[j].page_num # pg
    ELSE 0

\* the pages reachable from the pages of S through interior pages whose
\* latest version is in the WAL, in at most n steps
RECURSIVE ReachableInWal(_, _)
ReachableInWal(S, n) ==
    LET more == S \cup UNION {IF LatestSlot(pg) = 0 THEN {}
                              ELSE SlotChildren(LatestSlot(pg)) : pg \in S}
    IN  IF n = 0 \/ more = S THEN S ELSE ReachableInWal(more, n - 1)

\* every child of every mapped interior frame is mapped
C7_SweepComplete ==
    Built =>
        \A k \in 1..Len(frames) :
            frames[k].page_num \in DOMAIN page_map =>
                SlotChildren(k) \subseteq DOMAIN page_map

\* every page under the root of a WAL-only table is mapped to the table
C7_TreeComplete ==
    Built =>
        \A nr \in WalOnlyRows :
            DictGet(page_map, nr[2], "") = nr[1] =>
                \A pg \in ReachableInWal({nr[2]}, 20) :
                    DictGet(page_map, pg, "") = nr[1]

(* C7: after _build_wal_page_map every interior WAL frame whose page is    *)
(* mapped has all its child pointers (> 0) in the page map, and every page *)
(* reachable from the root of a WAL-only table through interior pages in   *)
(* the WAL is mapped to that table, whatever the depth and the order of    *)
(* the frames.                                                             *)
C7_ChildrenMapped == C7_SweepComplete /\ C7_TreeComplete

----------------------------------------------------------------------------
(* Seeding *)

\* the owner the claim names for a schema row
PromisedOwner(type, name, tbl_name) ==
    IF type = "table" THEN name
    ELSE IF tbl_name # "" THEN tbl_name ELSE name

\* master_leaf_cells of the open WAL
ScannedCells ==
    MasterLeafCells(Parser, 1, [cells |-> <<>>, pm |-> EmptyDict]).cells

\* the maps right after the i-th collected cell has been processed
AfterCell(i) ==
    ScanCells([page_map |-> EmptyDict, col_map |-> EmptyDict,
               pk_col_idx |-> EmptyDict, new_root_pages |-> <<>>],
              SubSeq(ScannedCells, 1, i), 1)

(* C8: seeding the page map from a schema row with rootpage > 0 (a live    *)
(* sqlite_master row or a sqlite_master cell in the WAL) maps the root     *)
(* page of a 'table' row to the table's own name and the root page of any  *)
(* other row to its tbl_name, to the own name only when tbl_name is empty. *)
C8_SeedOwner ==
    Built =>
        /\ \A i \in 1..Len(env.schema) :
              LET row == env.schema[i]
              IN  row.rootpage > 0 =>
                     SeedRows(SeedStart, SubSeq(env.schema, 1, i), 1)
                             .page_map[row.rootpage]
                         = PromisedOwner(row.type, row.name, row.tbl_name)
        /\ \A i \in 1..Len(ScannedCells) :
              LET vals == ScannedCells[i].values
              IN  (/\ Len(vals) >= 5
                   /\ vals[1].t = "text" /\ vals[2].t = "text"
                   /\ vals[2].s # ""
                   /\ vals[4].t = "int" /\ vals[4].i > 0) =>
                     AfterCell(i).page_map[vals[4].i]
                         = PromisedOwner(vals[1].s, vals[2].s,
                                         IF vals[3].t = "text"
                                         THEN vals[3].s ELSE "")

\* a live index row and an index cell in the WAL, both seeded to their tables
C8_Witness ==
    /\ Built
    /\ \E i \in 1..Len(env.schema) :
          /\ env.schema[i].type = "index"
          /\ env.schema[i].name # env.schema[i].tbl_name
          /\ DictGet(page_map, env.schema[i].rootpage, "")
                 = env.schema[i].tbl_name
    /\ \E i \in 1..Len(ScannedCells) :
          /\ ScannedCells[i].values[1] = VText("index")
          /\ ScannedCells[i].values[2] # ScannedCells[i].values[3]
          /\ DictGet(page_map, ScannedCells[i].values[4].i, "")
                 = ScannedCells[i].values[3].s

----------------------------------------------------------------------------
(* C9: _traverse_btree_pages terminates on every main file, cyclic,        *)
(* self-pointing and out-of-range child pointers included: every page      *)
(* number is expanded at most once, no call deeper than 20 levels below a  *)
(* root is expanded, no page outside the file is read, and the run ends    *)
(* with a page map, the one the build uses.                                *)
WalkSafe ==
    walk # None =>
        /\ \A i, j \in 1..Len(walk.expanded) :
              i # j => walk.expanded[i].page_num # walk.expanded[j].page_num
        /\ \A i \in 1..Len(walk.expanded) : walk.expanded[i].depth <= 20
        /\ walk.reads \subseteq 1..Len(env.dbfile)
        /\ walk.pc = "done" =>
              /\ walk.stack = <<>>
              /\ \A i \in 1..Len(walk.root_pages) :
                    walk.root_pages[i][1] \in DOMAIN walk.pm
              /\ walk.pm = SeedAndTraverse(env, FramePageSize).page_map

C9_TraverseTerminates == []WalkSafe /\ <>(WalkPc = "done")

\* one finished run that met a visited page, the depth limit and a page
\* number outside the file
C9_Witness ==
    /\ WalkPc = "done"
    /\ walk.refused = {"visited", "depth", "range"}

----------------------------------------------------------------------------
----------------------------------------------------------------------------
(* C11: when the WAL is absent or its first four bytes are neither of the  *)
(* two WAL magics, the parser is not valid after the open and every query  *)
(* returns empty: search and recover_all_records yield nothing, summary    *)
(* and table_stats return an empty mapping, transaction_groups an empty    *)
(* list and get_page_data empty bytes.                                     *)

NoValidWal ==
    \/ env.wal = None
    \/ env.wal.magic \notin {WAL_MAGIC_BE, WAL_MAGIC_LE}

C11_InvalidWalIsEmpty ==
    NoValidWal =>
        /\ ~_valid
        /\ out.op = "search" => out.hits = <<>>
        /\ out.op = "recover" => out.records = <<>>
        /\ out.op = "summary" => out.empty
        /\ out.op = "table_stats" => out.result = EmptyDict
        /\ out.op = "transaction_groups" => out.result = <<>>
        /\ out.op = "get_page_data" => out.result = None

\* a database open over a WAL of invalid magic that holds a user leaf
\* frame, asked for its table statistics
C11_Witness ==
    /\ env.wal # None
    /\ env.wal.magic \notin {WAL_MAGIC_BE, WAL_MAGIC_LE}
    /\ Len(env.wal.slots) > 0
    /\ db.conn
    /\ out.op = "table_stats"

----------------------------------------------------------------------------
(* C12: an open_wal_file call that fails (no file, fewer than 32 bytes,    *)
(* invalid magic, or an exception in the try block) leaves the parser in   *)
(* the not-open state; a call on a valid WAL succeeds whatever came        *)
(* before, and header, frames, page_size and the valid flag are those of   *)
(* the file opened last.  close() leaves the not-open state.               *)

OpenSucceeds(file, fault) ==
    /\ file # None
    /\ file.size >= WAL_HEADER_SIZE
    /\ file.magic \in {WAL_MAGIC_BE, WAL_MAGIC_LE}
    /\ fault = "none"

C12_OpenState ==
    /\ out.op = "close" => Parser = NotOpen
    /\ out.op = "open" =>
          IF OpenSucceeds(out.arg, out.fault)
          THEN /\ _valid /\ _f /\ _mm = out.arg
               /\ header.magic = out.arg.magic
               /\ header.page_size = out.arg.page_size
               /\ page_size = out.arg.page_size
               /\ _file_size = out.arg.size
               /\ Len(frames) = Len(out.arg.slots)
               /\ \A i \in 1..Len(frames) :
                      /\ frames[i].index = i - 1
                      /\ frames[i].page_num = out.arg.slots[i].page_num
          ELSE Parser = NotOpen

\* a failed open of a parser that was open on a valid file with frames
C12_Witness ==
    /\ out.op = "open"
    /\ ~OpenSucceeds(out.arg, out.fault)
    /\ out.before.valid
    /\ out.before.frames # <<>>

----------------------------------------------------------------------------
(* C13: in DB.open, when a non-empty WAL exists and the copy does not      *)
(* fail, the backup holds the WAL as it was when open started (or is the   *)
(* existing up-to-date backup) by the time either connection is open, and  *)
(* the parser is opened on the backup; the parser reads the original WAL   *)
(* only when no backup was produced.                                       *)

C13_BackupBeforeConnect ==
    LET backed == HasWal(out.start) /\ ~out.copy_fails
    IN  /\ (/\ out.op \in {"db_open_begin", "db_open_done"}
            /\ (db.conn \/ db.search_conn)
            /\ backed)
           => /\ db.wal_backup
              /\ env.bak = IF NeedBackup(out.start) THEN out.start.wal
                           ELSE out.start.bak
        /\ out.op = "db_open_done"
           => Parser = OpenResult(IF backed THEN env.bak ELSE env.wal)

\* the WAL was copied, SQLite then emptied or removed it at connect, and
\* the parser still shows the frames
C13_Witness ==
    /\ out.op = "db_open_done"
    /\ out.copied
    /\ ~HasWal(env)
    /\ _valid
    /\ frames # <<>>

----------------------------------------------------------------------------
(* C14: search and recover_all_records poll cancel before each frame and   *)
(* each cell; a poll that finds it true ends the generator with nothing    *)
(* more yielded, and once cancel is true no result of a frame later than   *)
(* the one in progress at that moment is ever yielded.                     *)

\* nothing yielded comes from a frame begun after cancel became true
NoLaterFrame ==
    gen.cancel =>
        \A n \in 1..Len(gen.yielded) :
            gen.yielded[n].frame_idx + 1 <= gen.cancel_frame

\* a poll that sees cancel ends the generator; an ended generator yields
\* nothing more
PollStops ==
    /\ (gen.pc = "frame" /\ gen.i <= Len(frames) /\ gen.cancel)
           => (gen'.pc = "done" /\ gen'.yielded = gen.yielded)
    /\ (gen.pc = "cell" /\ gen.k <= Len(gen.cells) /\ gen.cancel)
           => (gen'.pc = "done" /\ gen'.yielded = gen.yielded)
    /\ (gen.pc = "done" /\ gen'.yielded # gen.yielded)
           => (gen'.yielded = <<>> /\ ~gen'.cancel)

C14_CancelStops == []NoLaterFrame /\ [][PollStops]_vars

\* a cancelled generator that ended having yielded less than the whole
C14_Witness ==
    /\ gen.pc = "done"
    /\ gen.cancel
    /\ gen.yielded # <<>>
    /\ gen.kind = "recover"
    /\ Len(gen.yielded) < Len(recover_all_records(Parser, Maps, "", "", FALSE))

----------------------------------------------------------------------------
(* C15: every record of recover_all_records(table_filter = T,              *)
(* category_filter = C) has table T when T is given and category C when C  *)
(* is given, and the records are exactly those of the unfiltered           *)
(* enumeration that satisfy both conditions, in the same order.            *)

Wanted(r, T, C) == (T # "" => r.table = T) /\ (C # "" => r.category = C)

RECURSIVE SelectWanted(_, _, _)
SelectWanted(recs, T, C) ==
    IF recs = <<>> THEN <<>>
    ELSE (IF Wanted(Head(recs), T, C) THEN <<Head(recs)>> ELSE <<>>)
             \o SelectWanted(Tail(recs), T, C)

\* the unfiltered enumeration
AllRecords == recover_all_records(Parser, Maps, "", "", FALSE)

C15_Filters ==
    out.op = "recover" =>
        /\ \A n \in 1..Len(out.records) :
               Wanted(out.records[n], out.table_filter, out.category_filter)
        /\ out.records =
               SelectWanted(AllRecords, out.table_filter, out.category_filter)

\* both filters given, a record kept and a record left out
C15_Witness ==
    /\ out.op = "recover"
    /\ out.table_filter = "t1"
    /\ out.category_filter = "old"
    /\ out.records # <<>>
    /\ Len(out.records) < Len(AllRecords)

----------------------------------------------------------------------------
(* C16: recover_all_records (include_schema false) yields no record from a *)
(* table-leaf frame whose first decoded cell has at least 5 values, the    *)
(* 1st one of 'table', 'index', 'view', 'trigger' and the 5th a text that  *)
(* starts with CREATE once stripped and upper-cased, whatever table the    *)
(* page is attributed to; every other user leaf frame yields all its       *)
(* decoded cells.  C16_Original reads the shape as the claim words it:     *)
(* exactly 5 values, the 5th starting with the letters CREATE.             *)

\* the records of the last recover that come from frame k (1-based)
RecordsOfFrame(k) == SelectSeq(out.records, LAMBDA r : r.frame_idx = k - 1)

FirstDecoded(k) == parse_leaf_cells(env.wal.slots[k].page)[1].values

HasDecoded(k) == parse_leaf_cells(env.wal.slots[k].page) # <<>>

SchemaTypes == {VText("table"), VText("index"), VText("view"), VText("trigger")}

\* texts that begin with the letters CREATE
LiteralCreate == {VText(SQL_T2), VText(SQL_T3), VText(SQL_T4), VText(SQL_I2)}

\* texts that begin with CREATE after strip() and upper()
FoldedCreate == LiteralCreate \cup {VText(SQL_T5)}

ShapeAsWorded(k) ==
    /\ HasDecoded(k)
    /\ Len(FirstDecoded(k)) = 5
    /\ FirstDecoded(k)[1] \in SchemaTypes
    /\ FirstDecoded(k)[5] \in LiteralCreate

ShapeAsCoded(k) ==
    /\ HasDecoded(k)
    /\ Len(FirstDecoded(k)) >= 5
    /\ FirstDecoded(k)[1] \in SchemaTypes
    /\ FirstDecoded(k)[5] \in FoldedCreate

AllCellsYielded(k) ==
    Len(RecordsOfFrame(k)) = Len(parse_leaf_cells(env.wal.slots[k].page))

----------------------------------------------------------------------------
(* C17: every search hit comes from a frame whose type byte is 0x0D and    *)
(* whose page is not page 1, its table is neither sqlite_master nor        *)
(* sqlite_sequence, and it carries the index, page number and category of  *)
(* that frame and the whole row of the cell that matched.                  *)

\* row is the row_data of a cell with these values: one entry per value
WholeRow(row, table, rowid, values) ==
    LET col_names == DictGet(col_map, table, <<>>)
        pk_idx == DictGet(pk_col_idx, table, -1)
    IN  /\ Cardinality(DOMAIN row) = Len(values)
        /\ \A vi \in 0..(Len(values) - 1) :
               /\ ColName(col_names, vi) \in DOMAIN row
               /\ row[ColName(col_names, vi)] =
                      DisplayValue(values[vi + 1], vi, pk_idx, rowid)

HitProvenance(h) ==
    /\ h.frame_idx \in 0..(Len(frames) - 1)
    /\ LET fr == frames[h.frame_idx + 1]
           cells == env.wal.slots[h.frame_idx + 1].page.cells
       IN  /\ fr.page_type_byte = 13
           /\ fr.page_num # 1
           /\ h.table \notin {"sqlite_master", "sqlite_sequence"}
           /\ h.page_num = fr.page_num
           /\ h.category = fr.category
           /\ h.table = TableOf(page_map, fr.page_num)
           /\ \E k \in 1..Len(cells) :
                  /\ cells[k].ok
                  /\ cells[k].rowid = h.rowid
                  /\ WholeRow(h.row_data, h.table, h.rowid, cells[k].values)
                  /\ h.column \in DOMAIN h.row_data
                  /\ h.row_data[h.column] = h.value

----------------------------------------------------------------------------
(* C18: for every table T in table_stats(), frames is the number of        *)
(* table-leaf frames whose page maps to T, pages the set of their page     *)
(* numbers, committed / uncommitted / old the sums of the cell counts      *)
(* their page headers declare, per category, and total_records the sum of  *)
(* the three; system tables, page 1 and unmapped pages never appear.       *)

\* the numbers of the table-leaf frames whose page maps to T
LeafFramesOf(T) ==
    {k \in 1..Len(frames) :
        /\ frames[k].page_type_byte = 13
        /\ frames[k].page_num \in DOMAIN page_map
        /\ page_map[frames[k].page_num] = T}

\* the declared cell counts of the frames of K that are of category cat
RECURSIVE SumDeclared(_, _)
SumDeclared(K, cat) ==
    IF K = {} THEN 0
    ELSE LET k == CHOOSE x \in K : TRUE
         IN  (IF frames[k].category = cat
              THEN Len(env.wal.slots[k].page.cells) ELSE 0)
             + SumDeclared(K \ {k}, cat)

C18_TableStats ==
    out.op = "table_stats" =>
        \A T \in DOMAIN out.result :
            LET s == out.result[T]
                K == LeafFramesOf(T)
            IN  /\ T \notin {"sqlite_master", "sqlite_sequence"}
                /\ s.frames = Cardinality(K)
                /\ s.frames > 0
                /\ s.pages = {frames[k].page_num : k \in K}
                /\ 1 \notin s.pages
                /\ s.committed = SumDeclared(K, "committed")
                /\ s.uncommitted = SumDeclared(K, "uncommitted")
                /\ s.old = SumDeclared(K, "old")
                /\ s.total_records = s.committed + s.uncommitted + s.old

\* statistics of t1 over two frames of different categories, one of them
\* declaring a cell that does not decode, next to nothing for other pages
C18_Witness ==
    /\ out.op = "table_stats"
    /\ DOMAIN out.result = {"t1"}
    /\ out.result["t1"].frames = 2
    /\ out.result["t1"].committed = 1
    /\ out.result["t1"].uncommitted = 2

----------------------------------------------------------------------------
(* C19: diffing gives each recovered record one status: for a table that   *)
(* is not in the live schema, 'wal_table' when it is one of the WAL-only   *)
(* tables and 'not_in_db' otherwise; for a live table, 'not_in_db' when    *)
(* no live row has the rowid, 'different' with the set of differing        *)
(* columns when some column differs as a string (None as "NULL"), and      *)
(* 'same' when none does.  C19_Original gives 'wal_table' to every table   *)
(* that is not in the live schema, as the claim words it.                  *)

\* the live row with the record's rowid, as a set of zero or one rows
LiveRowOf(rec) ==
    {r \in env.rows : r.table = rec.table /\ r.rowid = rec.rowid}

\* the live value of column c, as the string it is compared by
LiveString(r, c) ==
    LET cols == env.schema[CHOOSE k \in 1..Len(env.schema) :
                               env.schema[k].name = r.table].cols
        i == CHOOSE x \in 1..Len(cols) : cols[x].name = c
    IN  IF r.values[i] = VNull THEN "NULL"
        ELSE IF r.values[i].t = "int" THEN ToString(r.values[i].i)
        ELSE r.values[i].s

LiveColumns(r) ==
    LET cols == env.schema[CHOOSE k \in 1..Len(env.schema) :
                               env.schema[k].name = r.table].cols
    IN  {cols[x].name : x \in 1..Len(cols)}

\* the columns of the record that differ from the live row r
Differing(rec, r) ==
    {c \in DOMAIN rec.values_dict :
        \/ c \notin LiveColumns(r)
        \/ LiveString(r, c) # rec.values_dict[c]}

\* the status of a record of a live table
LiveStatusOk(d) ==
    IF LiveRowOf(d.rec) = {} THEN d._diff_status = "not_in_db"
    ELSE LET r == CHOOSE x \in LiveRowOf(d.rec) : TRUE
         IN  IF Differing(d.rec, r) # {}
             THEN /\ d._diff_status = "different"
                  /\ d._diff_cols = Differing(d.rec, r)
             ELSE d._diff_status = "same"

C19_Original ==
    out.op = "load_all" =>
        \A n \in 1..Len(out.records) :
            LET d == out.records[n]
            IN  IF d.rec.table \notin LiveTables
                THEN d._diff_status = "wal_table"
                ELSE LiveStatusOk(d)

C19_DiffStatus ==
    out.op = "load_all" =>
        \A n \in 1..Len(out.records) :
            LET d == out.records[n]
            IN  IF d.rec.table \notin LiveTables
                THEN d._diff_status =
                         IF d.rec.table \in (DOMAIN col_map)
                                \ {"sqlite_master", "sqlite_sequence"}
                         THEN "wal_table" ELSE "not_in_db"
                ELSE LiveStatusOk(d)

\* one load that shows a record of a WAL-only table next to a different row
C19_Witness ==
    /\ out.op = "load_all"
    /\ \E n \in 1..Len(out.records) :
           out.records[n]._diff_status = "different"
    /\ \E n \in 1..Len(out.records) :
           /\ out.records[n]._diff_status = "not_in_db"
           /\ out.records[n].rec.table \notin LiveTables

----------------------------------------------------------------------------
\* the numeral of a small integer, and 2^63 - 1
ToBits(n) == Norm(Bits(n, 31))
Ones(n) == [i \in 1..n |-> 1]
RoundTripValues ==
    {ToBits(0), ToBits(127), ToBits(128), ToBits(2097151), Ones(63)}

Pad(bits, w) == [i \in 1..(w - Len(bits)) |-> 0] \o bits

\* the SQLite varint encoding of v: big-endian groups of 7 bits with the
\* high bit set on all but the last byte; a value of more than 56 bits takes
\* 9 bytes, the last one holding its low 8 bits
PutVarint(v) ==
    IF Len(v) > 56
    THEN LET p == Pad(v, 64)
         IN  [i \in 1..9 |->
                 IF i <= 8
                 THEN 128 + ToInt(SubSeq(p, 7 * (i - 1) + 1, 7 * i))
                 ELSE ToInt(SubSeq(p, 57, 64))]
    ELSE LET n == IF v = <<>> THEN 1 ELSE (Len(v) + 6) \div 7
             p == Pad(v, 7 * n)
         IN  [i \in 1..n |->
                 ToInt(SubSeq(p, 7 * (i - 1) + 1, 7 * i))
                 + (IF i < n THEN 128 ELSE 0)]

\* the 1-based positions, within the first 8 bytes after offset o, of bytes
\* below 0x80
Stops(data, o) == {i \in 1..8 : o + i <= Len(data) /\ data[o + i] < 128}
\* the number of bytes a varint at offset o takes
Consumed(data, o) ==
    IF Stops(data, o) = {} THEN 9
    ELSE CHOOSE i \in Stops(data, o) : \A j \in Stops(data, o) : i <= j

RECURSIVE Low7s(_, _, _)
\* the low 7 bits of the bytes o+1 .. o+k, concatenated
Low7s(data, o, k) ==
    IF k = 0 THEN <<>>
    ELSE Low7s(data, o, k - 1) \o Bits(data[o + k] % 128, 7)

Payload(data, o, n) ==
    IF n = 9 THEN Low7s(data, o, 8) \o Bits(data[o + 9], 8)
    ELSE Low7s(data, o, n)

(* C20: _read_varint(data, offset) consumes 1 to 9 bytes: each of the      *)
(* first 8 contributes its low 7 bits and a byte below 0x80 ends the       *)
(* value, the 9th contributes all 8 bits; it returns the value and the     *)
(* offset just past the last byte consumed; it fails with the truncation   *)
(* error exactly when the buffer ends before a terminating byte; and the   *)
(* SQLite encoding of 0, 127, 128, 2^21-1 and 2^63-1 decodes to the value  *)
(* and its encoded length (1, 1, 2, 3 and 9 bytes).                        *)
C20_ReadVarint ==
    out.op = "read_varint" =>
        LET data == env.data
            o == out.offset
            r == out.result
            n == Consumed(data, o)
        IN  /\ n \in 1..9
            /\ (r = Truncated) <=> (o + n > Len(data))
            /\ r # Truncated =>
                   /\ r.offset = o + n
                   /\ r.value = Norm(Payload(data, o, n))
                   /\ Len(r.value) <= 64
            /\ \A v \in RoundTripValues :
                   LET e == PutVarint(v)
                   IN  /\ Len(e) = (IF Len(v) <= 7 THEN 1
                                    ELSE IF Len(v) <= 14 THEN 2
                                    ELSE IF Len(v) <= 21 THEN 3 ELSE 9)
                       /\ (/\ o + Len(e) <= Len(data)
                           /\ SubSeq(data, o + 1, o + Len(e)) = e)
                          => r = [value |-> v, offset |-> o + Len(e)]

\* the 9-byte encoding of 2^63 - 1, read behind another byte, with a byte
\* after it: nine bytes consumed, the last one contributing 8 bits
C20_Witness ==
    /\ out.op = "read_varint"
    /\ out.offset = 1
    /\ Len(env.data) = 11
    /\ SubSeq(env.data, 2, 10) = PutVarint(Ones(63))
    /\ out.result = [value |-> Ones(63), offset |-> 10]

----------------------------------------------------------------------------
\* the sizes the claim lists for the serial types 0..9
ListedSizes == <<0, 1, 2, 3, 4, 6, 8, 8, 0, 0>>

ClaimedSize(t) ==
    IF t <= 9 THEN ListedSizes[t + 1]
    ELSE IF t >= 12 /\ t % 2 = 0 THEN (t - 12) \div 2
    ELSE IF t >= 13 THEN (t - 13) \div 2
    ELSE 0

(* C21: _serial_type_size(t) is 0,1,2,3,4,6,8,8,0,0 for t = 0..9,          *)
(* (t-12)/2 for even t >= 12 and (t-13)/2 for odd t >= 13, and does not    *)
(* decrease from t to t+1 for t >= 12; a _read_serial_value that returns   *)
(* leaves the offset advanced by exactly that size.                        *)
C21_SerialSize ==
    /\ out.op = "serial_type_size" =>
           /\ out.st \notin {10, 11} => out.size = ClaimedSize(out.st)
           /\ out.st >= 12 => out.size <= _serial_type_size(out.st + 1)
    /\ (out.op = "read_serial_value" /\ out.result # TruncatedValue) =>
           out.result.offset = out.offset + ClaimedSize(out.st)

\* a 6-byte integer (serial type 5) read from offset 1 of a 7-byte buffer
C21_Witness ==
    /\ out.op = "read_serial_value"
    /\ out.st = 5
    /\ out.offset = 1
    /\ out.result # TruncatedValue
    /\ out.result.offset = 7

----------------------------------------------------------------------------
RECURSIVE TypesBeforeCut(_, _, _, _)
\* the serial types whose varints end before the buffer does
TypesBeforeCut(data, offset, header_end, serial_types) ==
    IF offset < header_end /\ _read_varint(data, offset) # Truncated
    THEN LET r == _read_varint(data, offset)
         IN  TypesBeforeCut(data, r.offset, header_end,
                            Append(serial_types, AsInt(r.value)))
    ELSE serial_types

RECURSIVE ValuesBeforeCut(_, _, _, _)
\* the values that lie whole in the buffer, up to the first that does not
ValuesBeforeCut(data, offset, serial_types, values) ==
    IF serial_types = <<>> THEN values
    ELSE LET r == _read_serial_value(data, offset, Head(serial_types))
         IN  IF r = TruncatedValue THEN values
             ELSE ValuesBeforeCut(data, r.offset, Tail(serial_types),
                                  Append(values, r.value))

\* what can be decoded of the record at offset before the buffer ends
DecodedBeforeCut(data, offset) ==
    LET h == _read_varint(data, offset)
    IN  IF h = Truncated THEN <<>>
        ELSE LET header_end == offset + AsInt(h.value)
                 end == IF header_end > Len(data) THEN Len(data)
                        ELSE header_end
             IN  ValuesBeforeCut(data, end,
                     TypesBeforeCut(data, h.offset, header_end, <<>>), <<>>)

(* C22: parse_record on a payload that ends inside the header varints or   *)
(* inside a value does not raise: it returns the values that could be      *)
(* decoded before the truncation point.                                    *)
C22_PartialOnTruncation ==
    out.op = "parse_record" =>
        out.result = [values |-> DecodedBeforeCut(env.data, out.offset)]

----------------------------------------------------------------------------
\* the cell count a leaf page declares (bytes 3..4) and its i-th pointer
DeclaredCount(page) == page[4] * 256 + page[5]
PointerAt(page, i) == page[7 + 2 * i] * 256 + page[8 + 2 * i]
\* the pointers the page holds, of those it declares
PointersPresent(page) ==
    IF DeclaredCount(page) < (Len(page) - 8) \div 2
    THEN DeclaredCount(page) ELSE (Len(page) - 8) \div 2

\* the record bytes of the cell at ptr, clipped to the page
CellPayload(page, ptr) ==
    LET pl == _read_varint(page, ptr)
        rid == _read_varint(page, pl.offset)
    IN  Slice(page, rid.offset, rid.offset + AsInt(pl.value))

\* the pointer is in the page, both varints and the record decode
Decodes(page, ptr) ==
    /\ ptr < Len(page)
    /\ _read_varint(page, ptr) # Truncated
    /\ _read_varint(page, _read_varint(page, ptr).offset) # Truncated
    /\ "values" \in DOMAIN _parse_record(CellPayload(page, ptr), 0)

CellOf(page, ptr) ==
    [rowid |-> _read_varint(page, _read_varint(page, ptr).offset).value,
     values |-> _parse_record(CellPayload(page, ptr), 0).values]

RECURSIVE KeptCells(_, _)
\* the cells of the first k pointers that decode, in pointer order
KeptCells(page, k) ==
    IF k = 0 THEN <<>>
    ELSE IF Decodes(page, PointerAt(page, k))
         THEN Append(KeptCells(page, k - 1), CellOf(page, PointerAt(page, k)))
         ELSE KeptCells(page, k - 1)

(* C23: parse_leaf_cells returns a list on every page content: a cell      *)
(* whose pointer is out of range or whose varints or record fail to decode *)
(* is skipped, every other cell is returned, in cell-pointer order; the    *)
(* list is never longer than the declared cell count; a page whose first   *)
(* byte is not 0x0D yields the empty list.                                 *)
C23_LeafCellsRobust ==
    out.op = "parse_leaf_cells" =>
        LET page == env.data
            r == out.result
        IN  /\ (Len(page) < 8 \/ page[1] # 13) => r = <<>>
            /\ (Len(page) >= 8 /\ page[1] = 13) =>
                   /\ r = KeptCells(page, PointersPresent(page))
                   /\ Len(r) <= DeclaredCount(page)
            /\ \A i \in 1..Len(r) : DOMAIN r[i] = {"rowid", "values"}

\* a leaf page with two pointers in range: the first cell's record is cut
\* short and skipped, the second cell is returned
C23_Witness ==
    /\ out.op = "parse_leaf_cells"
    /\ Len(env.data) >= 8
    /\ env.data[1] = 13
    /\ PointersPresent(env.data) = 2
    /\ PointerAt(env.data, 1) < Len(env.data)
    /\ ~Decodes(env.data, PointerAt(env.data, 1))
    /\ Decodes(env.data, PointerAt(env.data, 2))
    /\ Len(out.result) = 1
    /\ out.result[1].values # <<>>

----------------------------------------------------------------------------
\* what the claim says stays as _build_wal_page_map and the open left it
FrozenFields == <<page_map, col_map, pk_col_idx, header, frames>>

\* as claimed: the five fields change in no step but a DB.open
C24_Original ==
    [][FrozenFields' # FrozenFields => out'.op = "db_open"]_vars

(* C24: once DB.open has stored the maps on the parser, no query operation *)
(* (search, recover_all_records, table_stats, summary, transaction_groups, *)
(* get_page_data, wal_tables, wal_browse) changes page_map, col_map,       *)
(* pk_col_idx, header or frames, whatever happens to the WAL on disk; a    *)
(* step that changes one of them is a DB.open, or the DB.close that        *)
(* releases the parser and empties its header and frames.                  *)
C24_MapsImmutable ==
    [][/\ FrozenFields' # FrozenFields => out'.op \in {"db_open", "db_close"}
       /\ out'.op = "db_close" =>
              <<page_map, col_map, pk_col_idx>>'
                  = <<page_map, col_map, pk_col_idx>>]_vars

\* wal_browse has run on an open database whose WAL on disk was replaced:
\* the maps are still those of the WAL that was opened, not of the new one
C24_Witness ==
    /\ out.op = "wal_browse"
    /\ out.result.rows # <<>>
    /\ db.conn
    /\ _valid
    /\ page_map # EmptyDict
    /\ Maps # _build_wal_page_map(OpenResult(env.wal), env)
    /\ Maps = _build_wal_page_map(OpenResult(env.later), env)

----------------------------------------------------------------------------
\* the frame with the given index
FrameOfIndex(idx) == frames[idx + 1]

(* C25: every group returned by transaction_groups is a run of consecutive *)
(* frames with the same salts; every frame with commit_size > 0, frame 0   *)
(* and the only frame of a one-frame WAL included, is the last frame of    *)
(* its group; a group is committed exactly when its last frame has         *)
(* commit_size > 0.                                                        *)
C25_CommitEndsGroup ==
    (out.op = "transaction_groups" /\ _valid) =>
        LET groups == out.result
        IN  /\ \A n \in 1..Len(groups) :
                   /\ groups[n].start_frame <= groups[n].end_frame
                   /\ \A idx \in groups[n].start_frame..groups[n].end_frame :
                          /\ FrameOfIndex(idx).salt1 = groups[n].salt1
                          /\ FrameOfIndex(idx).salt2 = groups[n].salt2
                   /\ groups[n].committed
                          <=> FrameOfIndex(groups[n].end_frame).commit_size > 0
            /\ \A k \in 1..Len(frames) :
                   frames[k].commit_size > 0 =>
                       \E n \in 1..Len(groups) :
                           groups[n].end_frame = frames[k].index

----------------------------------------------------------------------------
RECURSIVE SumCounts(_)
SumCounts(groups) ==
    IF groups = <<>> THEN 0
    ELSE groups[1].frame_count + SumCounts(Tail(groups))

(* C29: the groups returned by transaction_groups partition the frame      *)
(* list: they are in increasing frame order, each covers the contiguous    *)
(* index range start_frame..end_frame with frame_count = end_frame -       *)
(* start_frame + 1, consecutive groups are adjacent, every frame index is  *)
(* in exactly one group, and the frame counts sum to the number of frames. *)
C29_GroupsPartition ==
    (out.op = "transaction_groups" /\ _valid) =>
        LET groups == out.result
        IN  /\ (groups = <<>>) <=> (frames = <<>>)
            /\ groups # <<>> =>
                   /\ groups[1].start_frame = 0
                   /\ groups[Len(groups)].end_frame = Len(frames) - 1
            /\ \A n \in 1..Len(groups) :
                   /\ groups[n].start_frame <= groups[n].end_frame
                   /\ groups[n].frame_count
                          = groups[n].end_frame - groups[n].start_frame + 1
                   /\ n < Len(groups) =>
                          groups[n + 1].start_frame = groups[n].end_frame + 1
            /\ \A k \in 1..Len(frames) :
                   Cardinality({n \in 1..Len(groups) :
                       /\ groups[n].start_frame <= frames[k].index
                       /\ frames[k].index <= groups[n].end_frame}) = 1
            /\ SumCounts(groups) = Len(frames)

\* four frames in three groups: a commit in the middle, then a salt change
C29_Witness ==
    /\ out.op = "transaction_groups"
    /\ _valid
    /\ Len(frames) = 4
    /\ Len(out.result) = 3
    /\ frames[2].commit_size > 0
    /\ frames[3].salt1 # frames[4].salt1
    /\ out.result[2].frame_count = 1

----------------------------------------------------------------------------
(* C26: once _do_search has waited for the previous worker, that worker    *)
(* has ended: at most one worker is alive at any time, the flag is never   *)
(* lowered while a worker is alive, and every result in _search_results    *)
(* was found by the worker of the search the list belongs to.              *)

Alive == {t \in DOMAIN app.threads : is_alive(t)}

C26_OneSearchWorker ==
    /\ Cardinality(Alive) <= 1
    /\ app.pc = "reset_cancel" => Alive = {}
    /\ app.pc = "start" => app._search_results = <<>>
    /\ app.pc # "start" =>
           \A k \in DOMAIN app._search_results :
               app._search_results[k] = app._search_thread

----------------------------------------------------------------------------
(* C27: over any run of DB.open and DB.close, close leaves the backup file *)
(* as it is; the only step that changes an existing backup is the copy at  *)
(* the start of open, taken when the original WAL is non-empty and the     *)
(* backup is empty or older than it, and the backup then holds the WAL; a  *)
(* non-empty backup at least as new as the WAL is left as it is, and is    *)
(* the file the parser is pointed at when the WAL is non-empty.            *)

BakOf(e) == <<e.bak, e.bak_mtime>>

OpenBegins == db.pc = "idle" /\ db'.pc = "connect"

UpToDate(e) == e.bak # None /\ e.bak.size > 0 /\ e.bak_mtime >= e.wal_mtime

BackupStep ==
    /\ (db.pc = "idle" /\ out'.op = "db_close") => BakOf(env') = BakOf(env)
    /\ (env.bak # None /\ BakOf(env') # BakOf(env))
           => /\ OpenBegins
              /\ HasWal(env)
              /\ env.bak.size = 0 \/ env.bak_mtime < env.wal_mtime
              /\ BakOf(env') = <<env.wal, env.wal_mtime>>
    /\ (OpenBegins /\ UpToDate(env))
           => /\ BakOf(env') = BakOf(env)
              /\ (HasWal(env) /\ ~out'.copy_fails) => db'.wal_backup

C27_BackupPreserved == [][BackupStep]_vars

\* an open has ended that found a non-empty WAL and an up-to-date backup
\* holding other frames than the WAL: the backup is as it was and the
\* parser shows its frames
C27_Witness ==
    /\ out.op = "db_open_done"
    /\ HasWal(out.start)
    /\ UpToDate(out.start)
    /\ out.start.bak # out.start.wal
    /\ ~out.copy_fails
    /\ BakOf(env) = BakOf(out.start)
    /\ Parser = OpenResult(env.bak)

----------------------------------------------------------------------------
(* C28: in the page-1 scan, a table name that is in col_map when a         *)
(* sqlite_master cell is processed (put there by the live schema or by an  *)
(* earlier cell of the WAL) keeps its column list and its pk_col_idx       *)
(* entry, present or absent; a cell changes col_map or pk_col_idx only for *)
(* its own table name, only when that name is not yet in col_map, and      *)
(* then to what the two scanners read from the cell's CREATE TABLE text.   *)

\* the maps the scan starts from
ScanSeed ==
    LET seeded == SeedAndTraverse(env, page_size)
    IN  [page_map |-> seeded.page_map, col_map |-> seeded.col_map,
         pk_col_idx |-> seeded.pk_col_idx, new_root_pages |-> <<>>]

\* the maps right after the i-th collected cell has been processed
ScanAfter(i) == ScanCells(ScanSeed, SubSeq(ScannedCells, 1, i), 1)

SameEntry(d1, d2, k) ==
    /\ k \in DOMAIN d1 <=> k \in DOMAIN d2
    /\ k \in DOMAIN d1 => d1[k] = d2[k]

KeysOfBoth(d1, d2) == DOMAIN d1 \cup DOMAIN d2

C28_KnownTablesKept ==
    (db.conn /\ _valid /\ out.op \in {"db_open", "build"}) =>
        /\ col_map = ScanAfter(Len(ScannedCells)).col_map
        /\ pk_col_idx = ScanAfter(Len(ScannedCells)).pk_col_idx
        /\ \A name \in DOMAIN ScanSeed.col_map :
              /\ SameEntry(ScanSeed.col_map, col_map, name)
              /\ SameEntry(ScanSeed.pk_col_idx, pk_col_idx, name)
        /\ \A i \in 1..Len(ScannedCells) :
              LET before == ScanAfter(i - 1)
                  after == ScanAfter(i)
                  vals == ScannedCells[i].values
                  name == vals[2].s
                  sql == vals[5].s
              IN  /\ \A known \in DOMAIN before.col_map :
                        /\ SameEntry(before.col_map, after.col_map, known)
                        /\ SameEntry(before.pk_col_idx, after.pk_col_idx, known)
                  /\ \A other \in KeysOfBoth(after.col_map, after.pk_col_idx)
                                     \ {name} :
                        /\ SameEntry(before.col_map, after.col_map, other)
                        /\ SameEntry(before.pk_col_idx, after.pk_col_idx, other)
                  /\ (name \notin DOMAIN before.col_map
                      /\ name \in DOMAIN after.col_map)
                         => /\ vals[1].s = "table"
                            /\ after.col_map[name] = _parse_create_columns(sql)
                  /\ (name \notin DOMAIN before.pk_col_idx
                      /\ name \in DOMAIN after.pk_col_idx)
                         => /\ vals[1].s = "table"
                            /\ name \notin DOMAIN before.col_map
                            /\ after.pk_col_idx[name] = _detect_pk_from_sql(sql)

\* the live schema knows t1 without a rowid alias, the WAL names t1 with a
\* text that has other columns and a rowid alias, and names t2 twice with
\* different texts: t1 is as the live schema has it and t2 as its first
\* text has it
C28_Witness ==
    /\ db.conn /\ _valid /\ out.op = "db_open"
    /\ env.schema = <<RowT1NoPk>>
    /\ Len(ScannedCells) = 3
    /\ ScannedCells[1].values[5] = VText(SQL_T2B)
    /\ ScannedCells[2].values[5] = VText(SQL_T1B)
    /\ ScannedCells[3].values[5] = VText(SQL_T2)
    /\ col_map["t1"] = <<"id", "v">>
    /\ "t1" \notin DOMAIN pk_col_idx
    /\ col_map["t2"] = <<"a", "b">>
    /\ "t2" \notin DOMAIN pk_col_idx

----------------------------------------------------------------------------
(* C30: for every limit >= 0, WALParser.search yields at most limit        *)
(* results, each matching column value counting as one; it yields nothing  *)
(* when limit = 0 or the term is empty; and once the number yielded has    *)
(* reached the limit the generator ends without reading another frame or   *)
(* cell and without another result.                                        *)

AtMostLimit ==
    /\ out.op = "search" =>
          /\ Len(out.hits) <= out.limit
          /\ (out.limit = 0 \/ out.term = "") => out.hits = <<>>
    /\ gen.kind = "search" =>
          /\ Len(gen.yielded) <= gen.limit
          /\ (gen.limit = 0 \/ gen.term = "") => gen.yielded = <<>>
          /\ (gen.limit > 0 /\ Len(gen.yielded) = gen.limit) => gen.pc = "done"
          /\ gen.pc = "done" =>
                gen.yielded = search(Parser, Maps, gen.term, gen.mode, gen.limit)

StopsAtLimit ==
    (gen.kind = "search" /\ Len(gen.yielded) >= gen.limit) =>
        /\ gen'.kind = "search" =>
              \/ gen' = gen
              \/ gen' = [gen EXCEPT !.pc = "done"]
              \/ gen.pc = "done" /\ gen'.i = 1 /\ gen'.yielded = <<>>

C30_SearchLimit == []AtMostLimit /\ [][StopsAtLimit]_vars

\* a search with limit 1 has ended at the first value of a row that has
\* two matching values, with another frame of matching rows never read
C30_Witness ==
    /\ gen.kind = "search" /\ gen.pc = "done"
    /\ gen.limit = 1
    /\ Len(gen.yielded) = 1
    /\ gen.i = 1 /\ gen.k = 2
    /\ Len(frames) = 2
    /\ Len(parse_leaf_cells(get_page_data(Parser, frames[1].index))[1].values)
           = 2
    /\ Len(search(Parser, Maps, gen.term, gen.mode, MaxLimit + 1)) = 4

====
